---- MODULE Spec2Model ----
(***************************************************************************)
(* The canvas particle background of the portfolio page:                   *)
(* GalaxyBackground (the field controller), GalaxyParticle (one particle)  *)
(* and the throttle() wrapper around its resize and mousemove handlers.    *)
(*                                                                         *)
(* Numbers.  JavaScript numbers are modelled in fixed point: a particle's  *)
(* position, speed and radius are integers counting 1/Scale of a pixel.    *)
(* Canvas sizes and pointer coordinates are whole pixels.  A value that    *)
(* can be NaN (a particle coordinate) is a tuple: <<v>> is the number v,   *)
(* NaN is a tuple of another length, so that it compares unequal to every  *)
(* number.  A value that can be null (mouse.x, mouse.y) is <<v>> or Null.  *)
(* Times are milliseconds.                                                 *)
(***************************************************************************)
EXTENDS Integers, Sequences, FiniteSets, TLC

VARIABLES
    canvasFound,     \* this.canvas !== null (getElementById resolved)
    hasParent,       \* this.canvas.parentElement !== null: the canvas,
                     \* found in the page, is still in it
    consoleLog,      \* what the constructor logged: "error" or "initialized"
    listeners,       \* the event types bindEvents registered a listener for
    viewport,        \* window.innerWidth / innerHeight, pixels
    container,       \* the parent's offsetWidth / offsetHeight, pixels
    canvas,          \* this.canvas.width / height, pixels
    ctx,             \* this.ctx !== null: getContext("2d") gave a context
    particles,       \* this.particles, a sequence of particle records
    born,            \* the particles of this.particles as their constructor
                     \* returned them (no update() yet); empty with it
    frameLog,        \* the calls the latest animate() made, in their order;
                     \* emptied when resizeCanvas() resets the canvas
    mouse,           \* this.mouse: [x, y], each Null or <<pixels>>
    animationId,     \* this.animationId; 0 stands for null (both are falsy)
    rafPending,      \* the frame-callback ids the browser still has to run
    nextRafId,       \* the id the next requestAnimationFrame call returns
    resizeThrottle,  \* the closure state of the throttled resize handler
    mouseThrottle,   \* the closure state of the throttled mousemove handler
    ptr,             \* where the pointer is: NoPtr or a client position
    destroyed,       \* destroy() has been called
    portfolioFilter, \* the PortfolioFilter object, its buttons and items,
                     \* and the timers it has set: a record
    testimonialsSlider, \* the TestimonialsSlider object, its slides and dots,
                     \* the touch positions its handlers share and the
                     \* intervals the browser runs for it: a record
    sliderPage,      \* the page around the slider: pointer over it, document
                     \* hidden, the handler that ran last and whether it
                     \* raised an error
    heroVideoPlayer, \* the HeroVideoPlayer object, its video and the timers
                     \* it has set: a record
    heroPage,        \* the handler of the player that ran last and what it
                     \* found
    services,        \* the services section, window.scrollY, and the state
                     \* of the two scripts that write its stage class
    cookieConsent,   \* the CookieConsentManager, the banner, localStorage
                     \* and the initializers that have run
    contactForm,     \* the ContactForm, its fields and what a submission
                     \* has done
    loadingManager,  \* the LoadingManager, the loading screen and its timers
    counterAnimation, \* the CounterAnimation, its counters and intervals
    themeManager     \* the ThemeManager, the document's data-theme and the
                     \* stored theme

\* the variables of the GalaxyBackground
galaxyVars ==
    <<canvasFound, hasParent, consoleLog, listeners, viewport, container,
      canvas, ctx, particles, born, frameLog, mouse, animationId,
      rafPending, nextRafId, resizeThrottle, mouseThrottle, ptr, destroyed>>

\* the variables of the other components of the page
filterVars == <<portfolioFilter>>
sliderVars == <<testimonialsSlider, sliderPage>>
heroVars == <<heroVideoPlayer, heroPage>>
moreVars ==
    <<services, cookieConsent, contactForm, loadingManager, counterAnimation,
      themeManager>>
widgets == <<filterVars, sliderVars, heroVars, moreVars>>

vars == <<galaxyVars, widgets>>

---------------------------------------------------------------------------
(* Bounds of the model *)

\* this.numParticles; the page uses 200, the model a small count
numParticles == 2
\* the number of animation frames a behaviour runs (frame ids grow forever)
MaxFrames == 2
\* fixed-point resolution: model units per pixel
Scale == 8

(* Program constants *)

ResizeLimit == 250
MouseLimit == 16
InteractionRadius == 200
\* the distance below which drawConnections() joins two particles, pixels
ConnectionDistance == 150
\* pi in hundredths of a radian
PiCenti == 314

---------------------------------------------------------------------------
(* JavaScript numbers *)

Null == << >>
NaN == <<0, 0>>

IsNaN(f) == f = NaN

FAdd(a, b) == IF IsNaN(a) \/ IsNaN(b) THEN NaN ELSE <<a[1] + b[1]>>

FSub(a, b) == IF IsNaN(a) \/ IsNaN(b) THEN NaN ELSE <<a[1] - b[1]>>

\* a < b: false when either side is NaN
FLt(a, b) == ~IsNaN(a) /\ ~IsNaN(b) /\ a[1] < b[1]

\* integer division rounding toward zero, b > 0
TruncDiv(a, b) == IF a >= 0 THEN a \div b ELSE -((-a) \div b)

Abs(a) == IF a >= 0 THEN a ELSE -a

\* floor of the square root of n, where lo <= sqrt(n) <= hi
ISqrt(n, lo, hi) == CHOOSE r \in lo..hi : r * r <= n /\ n < (r + 1) * (r + 1)

\* Math.sqrt(dx * dx + dy * dy), in units
Distance(dx, dy) ==
    IF IsNaN(dx) \/ IsNaN(dy) THEN NaN
    ELSE <<ISqrt(dx[1] * dx[1] + dy[1] * dy[1],
                 IF Abs(dx[1]) >= Abs(dy[1]) THEN Abs(dx[1]) ELSE Abs(dy[1]),
                 Abs(dx[1]) + Abs(dy[1]))>>

\* Math.sin(phase) * 1 in units, phase in hundredths of a radian
\* (Bhaskara's rational approximation of the sine)
SinUnits(phase) ==
    LET t == phase % (2 * PiCenti)
        h == IF t >= PiCenti THEN t - PiCenti ELSE t
        v == TruncDiv(Scale * 16 * h * (PiCenti - h),
                      5 * PiCenti * PiCenti - 4 * h * (PiCenti - h))
    IN  IF t >= PiCenti THEN -v ELSE v

---------------------------------------------------------------------------
(* GalaxyParticle *)

\* the values the model draws for Math.random() * canvasWidth, in units
StartCoords(size) == {<<0>>, <<(size * Scale) \div 2>>}

\* the values the model draws for (Math.random() - 0.5) * 0.5, in units:
\* the range is [-Scale/4, Scale/4)
StartSpeeds == {-(Scale \div 4)}

\* new GalaxyParticle(canvasWidth, canvasHeight): the particles the
\* constructor can return, for the random draws the model makes
GalaxyParticle(canvasWidth, canvasHeight) ==
    { [x |-> x0, y |-> y0,
       radius |-> 2 * Scale, baseRadius |-> 2 * Scale,
       color |-> 1,
       speedX |-> sx, speedY |-> Scale \div 8,
       pulsePhase |-> 0, pulseSpeed |-> 2] :
      x0 \in StartCoords(canvasWidth),
      y0 \in {<<(canvasHeight * Scale) \div 2>>},
      sx \in StartSpeeds }

\* the pointer term with its sign turned: away from the pointer
PointerTermAway(d, distance) ==
    IF distance[1] = 0 THEN NaN
    ELSE <<-TruncDiv(d[1] * (InteractionRadius * Scale - distance[1]) * 2 * Scale,
                     distance[1] * InteractionRadius * Scale)>>

\* (d / distance) * force * 2 with force = (200 - distance) / 200, in units;
\* 0 / 0 is NaN
PointerTerm(d, distance) ==
    IF distance[1] = 0 THEN NaN
    ELSE <<TruncDiv(d[1] * (InteractionRadius * Scale - distance[1]) * 2 * Scale,
                    distance[1] * InteractionRadius * Scale)>>

\* update() without the boundary test
GalaxyParticleUpdateNoBounce(p, m, canvasWidth, canvasHeight) ==
    LET x1 == FAdd(p.x, <<p.speedX>>)
        y1 == FAdd(p.y, <<p.speedY>>)
        phase == p.pulsePhase + p.pulseSpeed
    IN  [p EXCEPT !.x = x1, !.y = y1, !.pulsePhase = phase,
                  !.radius = p.baseRadius + SinUnits(phase)]

\* update() with the pointer term added to the velocity as well
GalaxyParticleUpdatePullsSpeed(p, m, canvasWidth, canvasHeight) ==
    LET x1 == FAdd(p.x, <<p.speedX>>)
        y1 == FAdd(p.y, <<p.speedY>>)
        sx == IF FLt(x1, <<0>>) \/ FLt(<<canvasWidth * Scale>>, x1)
              THEN -p.speedX ELSE p.speedX
        sy == IF FLt(y1, <<0>>) \/ FLt(<<canvasHeight * Scale>>, y1)
              THEN -p.speedY ELSE p.speedY
        hasMouse == m.x # Null /\ m.y # Null
        dx == IF hasMouse THEN FSub(<<m.x[1] * Scale>>, x1) ELSE NaN
        dy == IF hasMouse THEN FSub(<<m.y[1] * Scale>>, y1) ELSE NaN
        distance == Distance(dx, dy)
        pulled == hasMouse /\ FLt(<<0>>, distance)
                           /\ FLt(distance, <<InteractionRadius * Scale>>)
        phase == p.pulsePhase + p.pulseSpeed
    IN  [p EXCEPT !.x = IF pulled THEN FAdd(x1, PointerTerm(dx, distance))
                        ELSE x1,
                  !.y = IF pulled THEN FAdd(y1, PointerTerm(dy, distance))
                        ELSE y1,
                  !.speedX = IF pulled THEN sx + PointerTerm(dx, distance)[1]
                             ELSE sx,
                  !.speedY = IF pulled THEN sy + PointerTerm(dy, distance)[1]
                             ELSE sy,
                  !.pulsePhase = phase,
                  !.radius = p.baseRadius + SinUnits(phase)]

\* update() that puts a particle leaving the canvas back on the edge
GalaxyParticleUpdateClamp(p, m, canvasWidth, canvasHeight) ==
    LET x1 == FAdd(p.x, <<p.speedX>>)
        y1 == FAdd(p.y, <<p.speedY>>)
        lowX == FLt(x1, <<0>>)
        highX == FLt(<<canvasWidth * Scale>>, x1)
        lowY == FLt(y1, <<0>>)
        highY == FLt(<<canvasHeight * Scale>>, y1)
        phase == p.pulsePhase + p.pulseSpeed
    IN  [p EXCEPT !.x = IF lowX THEN <<0>>
                        ELSE IF highX THEN <<canvasWidth * Scale>> ELSE x1,
                  !.y = IF lowY THEN <<0>>
                        ELSE IF highY THEN <<canvasHeight * Scale>> ELSE y1,
                  !.speedX = IF lowX \/ highX THEN -p.speedX ELSE p.speedX,
                  !.speedY = IF lowY \/ highY THEN -p.speedY ELSE p.speedY,
                  !.pulsePhase = phase,
                  !.radius = p.baseRadius + SinUnits(phase)]

\* update() with a drag on the velocity
GalaxyParticleUpdateDrag(p, m, canvasWidth, canvasHeight) ==
    LET x1 == FAdd(p.x, <<p.speedX>>)
        y1 == FAdd(p.y, <<p.speedY>>)
        phase == p.pulsePhase + p.pulseSpeed
    IN  [p EXCEPT !.x = x1, !.y = y1,
                  !.speedX = TruncDiv(p.speedX, 2),
                  !.speedY = TruncDiv(p.speedY, 2),
                  !.pulsePhase = phase,
                  !.radius = p.baseRadius + SinUnits(phase)]

\* GalaxyParticle.update(mouse, canvasWidth, canvasHeight): the particle after
\* the call
GalaxyParticleUpdate(p, m, canvasWidth, canvasHeight) ==
    LET x1 == FAdd(p.x, <<p.speedX>>)
        y1 == FAdd(p.y, <<p.speedY>>)
        sx == IF FLt(x1, <<0>>) \/ FLt(<<canvasWidth * Scale>>, x1)
              THEN -p.speedX ELSE p.speedX
        sy == IF FLt(y1, <<0>>) \/ FLt(<<canvasHeight * Scale>>, y1)
              THEN -p.speedY ELSE p.speedY
        hasMouse == m.x # Null /\ m.y # Null
        dx == IF hasMouse THEN FSub(<<m.x[1] * Scale>>, x1) ELSE NaN
        dy == IF hasMouse THEN FSub(<<m.y[1] * Scale>>, y1) ELSE NaN
        distance == Distance(dx, dy)
        pulled == hasMouse /\ FLt(distance, <<InteractionRadius * Scale>>)
        x2 == IF pulled THEN FAdd(x1, PointerTerm(dx, distance)) ELSE x1
        y2 == IF pulled THEN FAdd(y1, PointerTerm(dy, distance)) ELSE y1
        phase == p.pulsePhase + p.pulseSpeed
    IN  [p EXCEPT !.x = x2, !.y = y2, !.speedX = sx, !.speedY = sy,
                  !.pulsePhase = phase,
                  !.radius = p.baseRadius + SinUnits(phase)]

---------------------------------------------------------------------------
(* throttle(func, limit) *)

\* The closure of one throttled handler.  inThrottle is the closure variable;
\* timerSet says that the setTimeout callback has not run yet; sinceRun is the
\* time since func last ran (-1: never; it stops counting at the limit);
\* gap is what sinceRun was when func last ran (-1: that was its first run).
NewThrottle ==
    [inThrottle |-> FALSE, timerSet |-> FALSE, sinceRun |-> -1, gap |-> -1]

throttleNeverCloses(t) ==
    [run |-> TRUE,
     state |-> [inThrottle |-> FALSE, timerSet |-> TRUE,
                sinceRun |-> 0, gap |-> t.sinceRun]]

\* executedFunction(...args): whether func runs, and the closure afterwards
throttle(t) ==
    IF ~t.inThrottle
    THEN [run |-> TRUE,
          state |-> [inThrottle |-> TRUE, timerSet |-> TRUE,
                     sinceRun |-> 0, gap |-> t.sinceRun]]
    ELSE [run |-> FALSE, state |-> t]

\* the setTimeout callback may run: limit milliseconds have passed
TimerDue(t, limit) == t.timerSet /\ t.sinceRun >= limit

\* () => inThrottle = false
TimerFire(t) == [t EXCEPT !.inThrottle = FALSE, !.timerSet = FALSE]

\* d milliseconds pass
Elapsed(t, d, limit) ==
    IF t.sinceRun < 0 THEN t
    ELSE [t EXCEPT !.sinceRun =
              IF t.sinceRun + d >= limit THEN limit ELSE t.sinceRun + d]

---------------------------------------------------------------------------
(* Timers.  A component's pending setTimeout callbacks are a sequence of
   records in the order they were set; left is the time to go, counted in
   steps of the component's clock.  Callbacks due at the same time run in
   the order they were set. *)

\* the first timer that is due, 0 if none is
RECURSIVE FirstDue(_, _)
FirstDue(timers, k) ==
    IF k > Len(timers) THEN 0
    ELSE IF timers[k].left = 0 THEN k ELSE FirstDue(timers, k + 1)

\* the timers without the k-th
Without(timers, k) ==
    [n \in 1..(Len(timers) - 1) |-> IF n < k THEN timers[n] ELSE timers[n + 1]]

\* one step of the clock passes: no timer is due
Waited(timers) == [n \in 1..Len(timers) |-> [timers[n] EXCEPT !.left = @ - 1]]

---------------------------------------------------------------------------
(* PortfolioFilter.  Its clock counts steps of 50 ms. *)

\* the data-category of the project items, in document order
ItemCategories == <<"web", "design">>

\* the data-filter of the filter buttons
FilterButtons == {"all", "web", "design"}

\* index * 100 ms for the item at place k (index k - 1), in steps
StaggerSteps(k) == (k - 1) * 2

\* the 50 ms before a shown item gets its full opacity, in steps
ShowSteps == 1

\* the 300 ms before a faded item gets the class hidden, in steps
HideSteps == 6

\* the constructor and init() on the page as loaded: every item shown
NewPortfolioFilter ==
    [currentFilter |-> "all",
     active |-> "all",
     hidden |-> [k \in 1..Len(ItemCategories) |-> FALSE],
     faded |-> [k \in 1..Len(ItemCategories) |-> FALSE],
     timers |-> << >>,
     clicks |-> 0]

\* filter === 'all' || item.category === filter
shouldShow(filter, category) == filter = "all" \/ category = filter

\* filterItems(filter): the object afterwards
filterItems(f, filter) ==
    IF f.currentFilter = filter THEN f
    ELSE [f EXCEPT
            !.currentFilter = filter,
            !.active = filter,
            !.timers = @ \o [k \in 1..Len(ItemCategories) |->
                               [kind |-> "stagger", item |-> k,
                                show |-> shouldShow(filter, ItemCategories[k]),
                                left |-> StaggerSteps(k)]]]

\* the callback of the timer t runs: the object afterwards, t taken off
\* its timers already
TimerCallback(f, t) ==
    IF t.kind = "stagger"
    THEN IF t.show
         THEN [f EXCEPT !.hidden[t.item] = FALSE,
                        !.timers = Append(@, [kind |-> "opaque", item |-> t.item,
                                              show |-> TRUE, left |-> ShowSteps])]
         ELSE [f EXCEPT !.faded[t.item] = TRUE,
                        !.timers = Append(@, [kind |-> "hide", item |-> t.item,
                                              show |-> FALSE, left |-> HideSteps])]
    ELSE IF t.kind = "opaque"
    THEN [f EXCEPT !.faded[t.item] = FALSE]
    ELSE [f EXCEPT !.hidden[t.item] = TRUE]

(* TestimonialsSlider.  Slides and dots are counted from 0 as in the
   script; 0 stands for a null interval handle (both are falsy). *)

\* the classes goToSlide() moves between the slides
SlideClasses == {"active", "prev", "next"}

\* the constructor on a page without .testimonials-slider: init() logs its
\* error and returns, nothing is bound
NoTestimonialsSlider ==
    [totalSlides |-> 0,
     hasProgress |-> FALSE,
     currentSlide |-> 0,
     classes |-> << >>,
     dots |-> << >>,
     autoPlayInterval |-> 0,
     progressInterval |-> 0,
     autoPlayLive |-> {},
     progressLive |-> {},
     nextHandle |-> 1,
     isPlaying |-> TRUE,
     startX |-> 0,
     endX |-> 0]

\* startProgressIndicator()
startProgressIndicator(s) ==
    IF ~s.hasProgress THEN s
    ELSE [s EXCEPT !.progressInterval = s.nextHandle,
                   !.progressLive = @ \cup {s.nextHandle},
                   !.nextHandle = @ + 1]

\* stopProgressIndicator()
stopProgressIndicator(s) ==
    IF s.progressInterval # 0
    THEN [s EXCEPT !.progressLive = @ \ {s.progressInterval},
                   !.progressInterval = 0]
    ELSE s

\* startAutoPlay()
startAutoPlay(s) ==
    IF s.totalSlides <= 1 THEN s
    ELSE startProgressIndicator(
             [s EXCEPT !.autoPlayInterval = s.nextHandle,
                       !.autoPlayLive = @ \cup {s.nextHandle},
                       !.nextHandle = @ + 1])

\* pauseAutoPlay()
pauseAutoPlay(s) ==
    stopProgressIndicator(
        IF s.autoPlayInterval # 0
        THEN [s EXCEPT !.autoPlayLive = @ \ {s.autoPlayInterval},
                       !.autoPlayInterval = 0]
        ELSE s)

\* resumeAutoPlay()
resumeAutoPlay(s) ==
    IF s.isPlaying /\ s.totalSlides > 1 THEN startAutoPlay(s) ELSE s

\* restartAutoPlay()
restartAutoPlay(s) ==
    IF s.isPlaying THEN resumeAutoPlay(pauseAutoPlay(s)) ELSE s

\* toggleAutoPlay()
toggleAutoPlay(s) ==
    LET t == [s EXCEPT !.isPlaying = ~s.isPlaying]
    IN  IF t.isPlaying THEN resumeAutoPlay(t) ELSE pauseAutoPlay(t)

\* updateDots()
updateDots(s) ==
    [s EXCEPT !.dots = [d \in DOMAIN s.dots |-> d = s.currentSlide]]

\* the slide at i when there is one, else the slide at other: the if/else
\* goToSlide() picks the previous and the next slide with
SlideOr(s, i, other) == IF i \in 0..(s.totalSlides - 1) THEN i ELSE other

\* the classes of the slides once goToSlide() has set them for slideIndex;
\* before is what the slides had when the classes were added
ClassesFor(s, slideIndex, before) ==
    LET prevSlide == SlideOr(s, slideIndex - 1, s.totalSlides - 1)
        nextSlide == SlideOr(s, slideIndex + 1, 0)
    IN  [i \in 0..(s.totalSlides - 1) |->
            before[i] \cup (IF i = slideIndex THEN {"active"} ELSE {})
                      \cup (IF i = prevSlide THEN {"prev"} ELSE {})
                      \cup (IF i = nextSlide THEN {"next"} ELSE {})]

\* goToSlide() that leaves the slides the classes they have
goToSlideKeepsClasses(s, slideIndex) ==
    IF slideIndex < 0 \/ slideIndex >= s.totalSlides THEN s
    ELSE restartAutoPlay(updateDots(
             [s EXCEPT !.currentSlide = slideIndex,
                       !.classes = ClassesFor(s, slideIndex, s.classes)]))

\* goToSlide(slideIndex)
goToSlide(s, slideIndex) ==
    IF slideIndex < 0 \/ slideIndex >= s.totalSlides THEN s
    ELSE restartAutoPlay(updateDots(
             [s EXCEPT !.currentSlide = slideIndex,
                       !.classes = ClassesFor(s, slideIndex,
                           [i \in 0..(s.totalSlides - 1) |-> {}])]))

\* goToNextSlide()
goToNextSlide(s) == goToSlide(s, (s.currentSlide + 1) % s.totalSlides)

\* goToPreviousSlide()
goToPreviousSlide(s) ==
    goToSlide(s, (s.currentSlide - 1 + s.totalSlides) % s.totalSlides)

\* updateSlidePositions()
updateSlidePositions(s) ==
    updateDots(
        [s EXCEPT !.classes =
            [i \in 0..(s.totalSlides - 1) |->
                s.classes[i]
                  \cup (IF i = 0 THEN {"active"} ELSE {})
                  \cup (IF i = 1 /\ s.totalSlides > 1 THEN {"next"} ELSE {})
                  \cup (IF i = s.totalSlides - 1 /\ s.totalSlides > 2
                        THEN {"prev"} ELSE {})]])

\* the pixels a swipe must cover
SwipeThreshold == 50

\* the names handleSwipe() can read: its own constants.  startX and endX
\* are let-variables of bindEvents(), and no script declares them globally
HandleSwipeScope == {"threshold", "diff"}

\* handleSwipe(): [raised, s].  const diff = startX - endX reads two names;
\* a name out of scope raises a ReferenceError and the method ends there
handleSwipe(s) ==
    IF ~({"startX", "endX"} \subseteq HandleSwipeScope)
    THEN [raised |-> TRUE, s |-> s]
    ELSE LET diff == s.startX - s.endX
         IN  [raised |-> FALSE,
              s |-> IF Abs(diff) < SwipeThreshold THEN s
                    ELSE IF diff > 0 THEN goToNextSlide(s)
                    ELSE goToPreviousSlide(s)]

\* the constructor and init() on a page with n slides, a dot for each,
\* no classes on them, and the progress element or not
NewTestimonialsSlider(n, progress) ==
    updateSlidePositions(startAutoPlay(
        [NoTestimonialsSlider EXCEPT
            !.totalSlides = n,
            !.hasProgress = progress,
            !.classes = [i \in 0..(n - 1) |-> {}],
            !.dots = [i \in 0..(n - 1) |-> FALSE]]))

\* the page as the slider's handlers see it; nothing has happened yet
SliderPageLoaded ==
    [hovering |-> FALSE,
     docHidden |-> FALSE,
     lastStep |-> "load",
     raised |-> FALSE,
     events |-> 0]

---------------------------------------------------------------------------
(* HeroVideoPlayer.  Its clock counts seconds; 0 stands for a null timeout
   handle.  session counts the calls of enterVideoMode() that entered video
   mode, and a timer keeps the session it was set in: bookkeeping for the
   properties, the script reads neither. *)

\* the 2000 ms the poster is shown before the video plays, in seconds
PosterSteps == 2

\* the 2000 ms between the video's end and the exit, in seconds
EndedSteps == 2

\* the 3000 ms the error message stays, in seconds
ErrorSteps == 3

\* the constructor and init(): not in video mode, the video paused
NewHeroVideoPlayer ==
    [isVideoMode |-> FALSE,
     isPosterDelay |-> FALSE,
     posterDelayTimeout |-> 0,
     progressTracking |-> FALSE,
     video |-> "paused",
     timers |-> << >>,
     nextHandle |-> 1,
     session |-> 0]

\* setTimeout(callback of the kind, left): the object afterwards
SetTimeout(h, kind, left) ==
    [h EXCEPT !.timers = Append(@, [kind |-> kind, handle |-> h.nextHandle,
                                    session |-> h.session, left |-> left]),
              !.nextHandle = @ + 1]

\* clearTimeout(handle): the timers afterwards
ClearTimeout(timers, handle) ==
    LET Other(t) == t.handle # handle
    IN  SelectSeq(timers, Other)

\* clearPosterDelay() that leaves the timeout running
clearPosterDelayKeepsTimer(h) ==
    [h EXCEPT !.posterDelayTimeout = 0, !.isPosterDelay = FALSE]

\* clearPosterDelay()
clearPosterDelay(h) ==
    [h EXCEPT !.timers = IF h.posterDelayTimeout # 0
                         THEN ClearTimeout(@, h.posterDelayTimeout) ELSE @,
              !.posterDelayTimeout = 0,
              !.isPosterDelay = FALSE]

\* showPosterDelay()
showPosterDelay(h) ==
    [SetTimeout(h, "poster", PosterSteps) EXCEPT
        !.isPosterDelay = TRUE,
        !.posterDelayTimeout = h.nextHandle]

\* showVideoError()
showVideoError(h) == SetTimeout(h, "error", ErrorSteps)

\* the handlers of the video's play and pause events:
\* startProgressTracking() and stopProgressTracking()
Played(h) == [h EXCEPT !.video = "playing", !.progressTracking = TRUE]
Paused(h) == [h EXCEPT !.video = "paused", !.progressTracking = FALSE]

\* startVideoPlayback(); plays: the promise of heroVideo.play() is kept,
\* otherwise its catch runs
startVideoPlayback(h, plays) ==
    LET started == [h EXCEPT !.isPosterDelay = FALSE]
    IN  IF plays THEN Played(started) ELSE showVideoError(started)

\* enterVideoMode()
enterVideoMode(h) ==
    IF h.isVideoMode THEN h
    ELSE showPosterDelay([h EXCEPT !.isVideoMode = TRUE,
                                   !.session = @ + 1])

\* exitVideoMode()
exitVideoMode(h) ==
    IF ~h.isVideoMode THEN h
    ELSE Paused(clearPosterDelay([h EXCEPT !.isVideoMode = FALSE]))

\* togglePlayPause()
togglePlayPause(h, plays) ==
    IF h.isPosterDelay THEN startVideoPlayback(clearPosterDelay(h), plays)
    ELSE IF h.video = "paused" THEN (IF plays THEN Played(h) ELSE h)
    ELSE Paused(h)

\* the handler of the video's ended event
Ended(h) ==
    SetTimeout([h EXCEPT !.video = "paused", !.progressTracking = FALSE],
               "ended", EndedSteps)

\* the callback of the timer t runs: the object afterwards, t taken off
\* its timers already
HeroTimerCallback(h, t, plays) ==
    IF t.kind = "poster" THEN startVideoPlayback(h, plays)
    ELSE IF t.kind = "ended"
    THEN (IF h.isVideoMode THEN exitVideoMode(h) ELSE h)
    ELSE exitVideoMode(h)

\* the page as the player's handlers see it; nothing has happened yet.
\* before: the object when the last handler began; fired: the timer whose
\* callback ran last
HeroPageLoaded ==
    [lastStep |-> "load",
     before |-> NewHeroVideoPlayer,
     fired |-> [kind |-> "none", handle |-> 0, session |-> 0, left |-> 0],
     events |-> 0]

---------------------------------------------------------------------------
(* The services section and the two scripts that write its stage class: the
   handler PortfolioApp.initializeComponents() installs and the
   ServicesScrollAnimation.  Time is counted in animation frames. *)

\* totalStages: the stages are 0 to 6
TotalStages == 7

\* the window's height, the section's height and the section's top in the
\* document, pixels
ServicesLayout == [windowHeight |-> 10, sectionHeight |-> 10, top |-> 20]

\* window.scrollY as the user's scrolling leaves it
ScrollPositions == {0, 12, 14, 16, 20, 45}

\* the 50 ms of the handler's timer, in frames
StageTimerFrames == 3

\* a progress num / den turned into its stage:
\* Math.min(totalStages - 1, Math.floor(progress * totalStages))
StageOf(progress) ==
    LET stage == (progress[1] * TotalStages) \div progress[2]
    IN  IF stage > TotalStages - 1 THEN TotalStages - 1 ELSE stage

\* the progress the script computes at scrollY, a fraction <<num, den>>
\* between 0 and 1; den is the script's denominator for a visible section
ProgressAt(scrollY, num, den) ==
    LET rectTop == ServicesLayout.top - scrollY
        rectBottom == rectTop + ServicesLayout.sectionHeight
    IN  IF rectTop <= ServicesLayout.windowHeight /\ rectBottom >= 0
        THEN (IF num >= den THEN <<1, 1>> ELSE <<num, den>>)
        ELSE IF rectTop > ServicesLayout.windowHeight THEN <<0, 1>>
        ELSE <<1, 1>>

\* the progress of handleScrollStage():
\* (windowHeight - sectionTop) / (totalVisibleHeight * 0.6)
handleScrollStageProgress(scrollY) ==
    ProgressAt(scrollY,
        10 * (ServicesLayout.windowHeight - (ServicesLayout.top - scrollY)),
        6 * (ServicesLayout.windowHeight + ServicesLayout.sectionHeight))

\* updateScrollProgress():
\* (windowHeight - sectionTop) / (windowHeight + sectionHeight * 0.5)
updateScrollProgress(scrollY) ==
    ProgressAt(scrollY,
        2 * (ServicesLayout.windowHeight - (ServicesLayout.top - scrollY)),
        2 * ServicesLayout.windowHeight + ServicesLayout.sectionHeight)

\* the page loaded at the top: both scripts have started, neither has
\* written a stage class
NewServices ==
    [scrollY |-> 0,
     stageClasses |-> {},
     currentScrollStage |-> 0,
     isAnimationInProgress |-> FALSE,
     targetStage |-> 0,
     stageTimer |-> -1,
     ticking |-> FALSE,
     currentStage |-> 0,
     scrollProgress |-> <<0, 1>>,
     inThrottle |-> FALSE]

\* handleScrollStage()
handleScrollStage(s) ==
    LET targetStage == StageOf(handleScrollStageProgress(s.scrollY))
    IN  IF s.isAnimationInProgress \/ targetStage = s.currentScrollStage
        THEN s
        ELSE [s EXCEPT !.isAnimationInProgress = TRUE,
                       !.stageClasses = {},
                       !.targetStage = targetStage,
                       !.stageTimer = StageTimerFrames]

\* updateAnimation() with its updateStage()
updateAnimation(s) ==
    LET stage == StageOf(s.scrollProgress)
    IN  IF stage = s.currentStage THEN s
        ELSE [s EXCEPT !.currentStage = stage, !.stageClasses = {stage}]

---------------------------------------------------------------------------
(* CookieConsentManager.  localStorage outlives the page; a page load finds
   it usable or not (getItem and setItem throw), and the script catches
   both. *)

\* localStorage.getItem('cookieConsent') === null
NoRecord ==
    [present |-> FALSE, essential |-> FALSE, analytics |-> FALSE,
     marketing |-> FALSE]

\* the record JSON.stringify(preferences) leaves for the given choices
Preferences(analytics, marketing) ==
    [present |-> TRUE, essential |-> TRUE, analytics |-> analytics,
     marketing |-> marketing]

\* hasUserConsent()
hasUserConsent(c) == c.storageWorks /\ c.stored.present

\* the constructor and init() of a page load that finds stored in
\* localStorage; showTimer: the 2 s timer of showConsent() is pending,
\* hideTimer: the 300 ms timer of hideConsent() is; ran: the initializers
\* the last step ran, applied: the preferences it ran them for
NewCookieConsent(stored, works) ==
    LET c == [stored |-> stored, storageWorks |-> works]
    IN  [stored |-> stored,
         storageWorks |-> works,
         showTimer |-> ~hasUserConsent(c),
         hideTimer |-> FALSE,
         show |-> FALSE,
         modalShow |-> FALSE,
         analyticsChecked |-> FALSE,
         marketingChecked |-> FALSE,
         ran |-> {},
         applied |-> NoRecord,
         lastStep |-> "init"]

\* savePreferences() that stores nothing
savePreferencesNothing(c, preferences) == c

\* savePreferences(preferences)
savePreferences(c, preferences) ==
    IF c.storageWorks THEN [c EXCEPT !.stored = preferences] ELSE c

\* initializeCookies() that initializes Google Analytics whatever the
\* preferences
initializeCookiesAlways(c, preferences) ==
    [c EXCEPT !.applied = preferences,
              !.ran = {"analytics", "essential"}
                        \cup (IF preferences.marketing THEN {"marketing"}
                              ELSE {})]

\* initializeCookies(preferences)
initializeCookies(c, preferences) ==
    [c EXCEPT !.applied = preferences,
              !.ran = {"essential"}
                        \cup (IF preferences.analytics THEN {"analytics"}
                              ELSE {})
                        \cup (IF preferences.marketing THEN {"marketing"}
                              ELSE {})]

\* showConsent() with its loadSavedPreferences()
showConsent(c) ==
    LET shown == [c EXCEPT !.show = TRUE]
    IN  IF c.storageWorks /\ c.stored.present
        THEN initializeCookies(
                 [shown EXCEPT !.analyticsChecked = c.stored.analytics,
                               !.marketingChecked = c.stored.marketing],
                 c.stored)
        ELSE shown

\* hideConsent()
hideConsent(c) == [c EXCEPT !.hideTimer = TRUE]

\* acceptAllCookies() and rejectAllCookies(), for the preferences each
\* builds
decideAll(c, preferences) ==
    initializeCookies(hideConsent(savePreferences(c, preferences)),
                      preferences)

\* updateCookiePreferences()
updateCookiePreferences(c) ==
    LET preferences == Preferences(c.analyticsChecked, c.marketingChecked)
    IN  initializeCookies(savePreferences(c, preferences), preferences)

---------------------------------------------------------------------------
(* ContactForm.  A field's value is a sequence of characters; the form has
   the fields name (text), email (email) and message (textarea). *)

FormFields == {"name", "email", "message"}

\* String.prototype.trim() over the characters of the model
RECURSIVE trim(_)
trim(s) ==
    IF s = << >> THEN s
    ELSE IF Head(s) = " " THEN trim(Tail(s))
    ELSE IF s[Len(s)] = " " THEN trim(SubSeq(s, 1, Len(s) - 1))
    ELSE s

\* /^[^\s@]+@[^\s@]+\.[^\s@]+$/.test(s)
emailRegexTest(s) ==
    \E i, j \in 1..Len(s) :
        /\ 1 < i /\ s[i] = "@"
        /\ i + 1 < j /\ s[j] = "." /\ j < Len(s)
        /\ \A k \in (1..Len(s)) \ {i} : s[k] \notin {" ", "@"}

\* validateField(field) that takes every value
validateFieldAlways(form, field) == TRUE

\* validateField(field): its result; the field shows an error exactly when
\* the result is false
validateField(form, field) ==
    LET value == trim(form.value[field])
    IN  IF field \in form.required /\ value = << >> THEN FALSE
        ELSE IF field = "email" /\ value # << >> /\ ~emailRegexTest(value)
             THEN FALSE
        ELSE IF field = "name" /\ value # << >> /\ Len(value) < 2
             THEN FALSE
        ELSE TRUE

\* validateForm(): the form after it and its result
validateForm(form) ==
    [form |-> [form EXCEPT !.error =
                   [f \in FormFields |->
                       IF f \in form.required THEN ~validateField(form, f)
                       ELSE form.error[f]]],
     isValid |-> \A f \in form.required : validateField(form, f)]

\* setLoadingState(loading)
setLoadingState(form, loading) == [form EXCEPT !.loading = loading]

\* showMessage(message, type); it starts the 5 s timer that hides the message
showMessage(form, type) ==
    IF form.messageElement THEN [form EXCEPT !.message = type] ELSE form

\* the constructor: the page's form, its required fields and whether the
\* page has the element form-message; value: what the fields hold, pending:
\* the submissions waiting for their sends, sent: what the last step sent
NewContactForm(required, messageElement) ==
    [value |-> [f \in FormFields |-> << >>],
     required |-> required,
     error |-> [f \in FormFields |-> FALSE],
     messageElement |-> messageElement,
     message |-> "none",
     loading |-> FALSE,
     pending |-> 0,
     submits |-> 0,
     sent |-> {},
     lastStep |-> "init"]

\* handleSubmit() up to its await, for what window.open() does
handleSubmit(form, whatsapp) ==
    LET checked == validateForm(form)
    IN  IF ~checked.isValid
        THEN [showMessage(checked.form, "error") EXCEPT
                 !.submits = @ + 1, !.sent = {}, !.lastStep = "rejected"]
        ELSE [setLoadingState(checked.form, TRUE) EXCEPT
                 !.submits = @ + 1,
                 !.pending = @ + 1,
                 !.sent = IF whatsapp = "throws" THEN {"email"}
                          ELSE {"whatsapp", "email"},
                 !.lastStep = "sending"]

\* handleSubmit() after its await without the finally block
handleSubmitSettledLocked(form) ==
    [showMessage(form, "success") EXCEPT
        !.value = [f \in FormFields |-> << >>],
        !.pending = @ - 1,
        !.sent = {},
        !.lastStep = "settled"]

\* handleSubmit() after its await: both sends have settled
handleSubmitSettled(form) ==
    [setLoadingState(showMessage(form, "success"), FALSE) EXCEPT
        !.value = [f \in FormFields |-> << >>],
        !.pending = @ - 1,
        !.sent = {},
        !.lastStep = "settled"]

---------------------------------------------------------------------------
(* LoadingManager.  Its clock counts steps of 100 ms. *)

ScreenSteps == 80
LoadSteps == 10
RemoveSteps == 5
WelcomeSteps == 10
MessageSteps == 12
FadeSteps == 3

\* the constructor and init() on a page with or without #loading-screen and
\* with the given number of .welcome-message elements; hides: the calls of
\* hideLoadingScreen() that took effect, removals: the calls of remove(),
\* active: the welcome message shown, 0 for none
NewLoadingManager(loadingScreen, messages) ==
    [loadingScreen |-> loadingScreen,
     isLoaded |-> FALSE,
     hidden |-> FALSE,
     hides |-> 0,
     removals |-> 0,
     welcomeMessages |-> messages,
     currentMessageIndex |-> 0,
     active |-> 0,
     timers |-> (IF messages = 0 THEN << >>
                 ELSE <<[kind |-> "message", left |-> WelcomeSteps]>>)
               \o <<[kind |-> "hide", left |-> ScreenSteps]>>,
     clock |-> 0,
     loadAt |-> -1]

\* hideLoadingScreen() without its test of isLoaded
hideLoadingScreenAgain(m) ==
    IF m.loadingScreen
    THEN [m EXCEPT !.hidden = TRUE, !.isLoaded = TRUE, !.hides = @ + 1,
                   !.timers = Append(@, [kind |-> "remove",
                                         left |-> RemoveSteps])]
    ELSE m

\* hideLoadingScreen()
hideLoadingScreen(m) ==
    IF m.loadingScreen /\ ~m.isLoaded
    THEN [m EXCEPT !.hidden = TRUE, !.isLoaded = TRUE, !.hides = @ + 1,
                   !.timers = Append(@, [kind |-> "remove",
                                         left |-> RemoveSteps])]
    ELSE m

\* showNextMessage()
showNextMessage(m) ==
    IF m.currentMessageIndex < m.welcomeMessages
    THEN [m EXCEPT
             !.active = 0,
             !.currentMessageIndex = @ + 1,
             !.timers = @ \o <<[kind |-> "fade", left |-> FadeSteps,
                                message |-> m.currentMessageIndex + 1]>>
                          \o (IF m.currentMessageIndex + 1 < m.welcomeMessages
                              THEN <<[kind |-> "message",
                                      left |-> MessageSteps]>>
                              ELSE << >>)]
    ELSE [m EXCEPT !.active = 0]

\* the callback of a timer of the object
LoadingTimerCallback(m, t) ==
    CASE t.kind = "hide" -> hideLoadingScreen(m)
      [] t.kind = "remove" -> [m EXCEPT !.removals = @ + 1]
      [] t.kind = "message" -> showNextMessage(m)
      [] OTHER -> [m EXCEPT !.active = t.message]

---------------------------------------------------------------------------
(* CounterAnimation.  A counter's data-target is a non-negative integer; its
   current is kept as the number of increments added, each target / 125. *)

\* duration / 16
Ticks == 125

\* the constructor and init(): the counters of the page with their
\* data-target; running: the counter's interval is set, animations: the
\* calls of animateCounters()
NewCounterAnimation(targets) ==
    [counters |-> [k \in 1..Len(targets) |->
                      [target |-> targets[k], current |-> 0, text |-> 0,
                       running |-> FALSE]],
     hasAnimated |-> FALSE,
     animations |-> 0,
     intersections |-> 0]

\* animateCounters()
animateCounters(a) ==
    [a EXCEPT !.counters = [k \in DOMAIN @ |->
                               [@[k] EXCEPT !.current = 0, !.running = TRUE]],
              !.animations = @ + 1]

\* the callback of the IntersectionObserver without its test of hasAnimated
observedAlways(a, isIntersecting) ==
    LET seen == [a EXCEPT !.intersections = @ + 1]
    IN  IF isIntersecting
        THEN [animateCounters(seen) EXCEPT !.hasAnimated = TRUE]
        ELSE seen

\* the callback of the IntersectionObserver for one entry
observed(a, isIntersecting) ==
    LET seen == [a EXCEPT !.intersections = @ + 1]
    IN  IF isIntersecting /\ ~a.hasAnimated
        THEN [animateCounters(seen) EXCEPT !.hasAnimated = TRUE]
        ELSE seen

\* the callback of a counter's interval; the sum of 125 rounded increments
\* may fall short of the target (short) and then the next one passes it
intervalCallback(counter, short) ==
    LET current == counter.current + 1
        reached == \/ counter.target = 0
                   \/ current > Ticks
                   \/ current = Ticks /\ ~short
    IN  IF reached
        THEN [counter EXCEPT !.current = current, !.text = counter.target,
                             !.running = FALSE]
        ELSE [counter EXCEPT
                 !.current = current,
                 !.text = IF current = Ticks THEN counter.target - 1
                          ELSE (current * counter.target) \div Ticks]

---------------------------------------------------------------------------
(* ThemeManager of script.ts.  localStorage holds "light" or "dark" under
   the key theme, or nothing ("none"). *)

\* applyTheme(theme); metaThemeColor: the content of the meta element
\* theme-color, "absent" on a page without it
applyTheme(t, theme) ==
    [t EXCEPT !.dataTheme = theme,
              !.currentTheme = theme,
              !.metaThemeColor = IF @ = "absent" THEN @
                                 ELSE IF theme = "dark" THEN "#111827"
                                 ELSE "#ffffff"]

\* the constructor and init() of a page load; systemDark: the media query
\* (prefers-color-scheme: dark) matches
NewThemeManager(stored, themeToggle, metaThemeColor, systemDark) ==
    applyTheme([stored |-> stored,
                themeToggle |-> themeToggle,
                metaThemeColor |-> metaThemeColor,
                systemDark |-> systemDark,
                currentTheme |-> "light",
                dataTheme |-> "none"],
               IF stored = "none" THEN "light" ELSE stored)

\* toggleTheme() without its setItem()
toggleThemeUnstored(t) ==
    applyTheme(t, IF t.currentTheme = "light" THEN "dark" ELSE "light")

\* toggleTheme()
toggleTheme(t) ==
    LET applied == applyTheme(t, IF t.currentTheme = "light" THEN "dark"
                                 ELSE "light")
    IN  [applied EXCEPT !.stored = applied.currentTheme]

\* the change handler of the media query
systemThemeChange(t, matches) ==
    LET changed == [t EXCEPT !.systemDark = matches]
    IN  IF t.stored = "none"
        THEN applyTheme(changed, IF matches THEN "dark" ELSE "light")
        ELSE changed

---------------------------------------------------------------------------
(* A specification follows one component of the page and leaves the others
   out: a component left out is absent, it has no object, no timers and no
   handlers, and no step touches it. *)

Absent == << >>

NoFilter == portfolioFilter = Absent

NoSlider == testimonialsSlider = Absent /\ sliderPage = Absent

NoHero == heroVideoPlayer = Absent /\ heroPage = Absent

NoServices == services = Absent

NoCookies == cookieConsent = Absent

NoForm == contactForm = Absent

NoLoading == loadingManager = Absent

NoCounters == counterAnimation = Absent

NoTheme == themeManager = Absent

\* the components other than the GalaxyBackground are left out
WidgetsIdle ==
    /\ NoFilter /\ NoSlider /\ NoHero
    /\ NoServices /\ NoCookies /\ NoForm /\ NoLoading /\ NoCounters /\ NoTheme

\* the components that have a specification to themselves are left out
\* of the others
NoMore ==
    /\ NoServices /\ NoCookies /\ NoForm /\ NoLoading /\ NoCounters /\ NoTheme

---------------------------------------------------------------------------
(* The page around the canvas *)

\* the layouts the page takes: the window's size and, with it, the size of
\* the canvas's parent element
Layouts ==
    { [viewport |-> [w |-> 8, h |-> 4], container |-> [w |-> 4, h |-> 2]],
      [viewport |-> [w |-> 10, h |-> 4], container |-> [w |-> 6, h |-> 2]] }

\* the time steps the model takes, milliseconds
TimeSteps == {125}

\* the time steps of the specification of the throttled handlers alone
FineTimeSteps == {8, 125}

\* canvas.getBoundingClientRect(): the canvas fills its parent, whose corner
\* is at a fixed client position; a canvas that is no longer in the page has
\* an empty rectangle at the origin
CanvasRect ==
    IF hasParent
    THEN [left |-> 2, top |-> 1, width |-> container.w, height |-> container.h]
    ELSE [left |-> 0, top |-> 0, width |-> 0, height |-> 0]

\* the pointer is nowhere in the window
NoPtr == [x |-> -1, y |-> -1]

\* the client positions the pointer takes
ClientPositions == {[x |-> 0, y |-> 0], [x |-> 3, y |-> 2]}

\* the pointer at pos is over the canvas
Over(pos) ==
    /\ pos # NoPtr
    /\ CanvasRect.left <= pos.x /\ pos.x < CanvasRect.left + CanvasRect.width
    /\ CanvasRect.top <= pos.y /\ pos.y < CanvasRect.top + CanvasRect.height

---------------------------------------------------------------------------
(* GalaxyBackground *)

AllListeners == {"resize", "mousemove", "mouseleave"}

NullMouse == [x |-> Null, y |-> Null]

NoCanvas == [width |-> 0, height |-> 0]

initProceedsAlways(found) == TRUE

\* init(): whether it goes on past the check of this.canvas
initProceeds(found) == found

\* resizeCanvas(): the canvas's width and height afterwards
resizeCanvas(parent, cont, view) ==
    IF parent THEN [width |-> cont.w, height |-> cont.h]
    ELSE [width |-> view.w, height |-> view.h]

createParticlesOneMore(cv) ==
    [1..(numParticles + 1) -> GalaxyParticle(cv.width, cv.height)]

\* createParticles(): the collections it can leave in this.particles
createParticles(cv) ==
    [1..numParticles -> GalaxyParticle(cv.width, cv.height)]

\* update(): every particle updated with the current pointer state
update(ps, m, cv) ==
    [i \in 1..Len(ps) |-> GalaxyParticleUpdate(ps[i], m, cv.width, cv.height)]

---------------------------------------------------------------------------
(* What a frame calls.  A call is a record: op names the function, i and j
   the particles it is about (0: none), opacity the alpha of the stroke
   style (0 where the call has none). *)

Call(op, i, j, opacity) == [op |-> op, i |-> i, j |-> j, opacity |-> opacity]

\* opacity 1.0: an opacity is counted in 1 / (10 * 150 * Scale)
OpacityOne == 10 * ConnectionDistance * Scale

\* the opacity with the interaction radius in the place of 150
OpacityOverRadius(distance) == (InteractionRadius * Scale - distance[1]) * 3

\* (1 - distance / 150) * 0.3, distance a number in units
Opacity(distance) == (ConnectionDistance * Scale - distance[1]) * 3

\* the distance drawConnections() computes between two particles
ConnectionLength(p, q) == Distance(FSub(p.x, q.x), FSub(p.y, q.y))

\* the loops with the inner one starting over at the first particle
RECURSIVE ConnectionsFromFirst(_, _, _)
ConnectionsFromFirst(ps, i, j) ==
    IF i > Len(ps) THEN << >>
    ELSE IF j > Len(ps) THEN ConnectionsFromFirst(ps, i + 1, 1)
    ELSE LET distance == ConnectionLength(ps[i], ps[j])
         IN  (IF FLt(distance, <<ConnectionDistance * Scale>>)
              THEN <<Call("stroke", i, j, Opacity(distance))>>
              ELSE << >>)
             \o ConnectionsFromFirst(ps, i, j + 1)

\* the pairs (i, j) the loops of drawConnections() come to, from (i, j) on,
\* for n particles
RECURSIVE ConnectionTests(_, _, _)
ConnectionTests(n, i, j) ==
    IF i > n THEN << >>
    ELSE IF j > n THEN ConnectionTests(n, i + 1, i + 2)
    ELSE <<<<i, j>>>> \o ConnectionTests(n, i, j + 1)

\* the loops of drawConnections() from the pair (i, j) on: a stroke for every
\* pair whose distance is below 150
RECURSIVE ConnectionsFrom(_, _, _)
ConnectionsFrom(ps, i, j) ==
    IF i > Len(ps) THEN << >>
    ELSE IF j > Len(ps) THEN ConnectionsFrom(ps, i + 1, i + 2)
    ELSE LET distance == ConnectionLength(ps[i], ps[j])
         IN  (IF FLt(distance, <<ConnectionDistance * Scale>>)
              THEN <<Call("stroke", i, j, Opacity(distance))>>
              ELSE << >>)
             \o ConnectionsFrom(ps, i, j + 1)

\* drawConnections(): the lines it strokes, in their order
drawConnections(ps) == ConnectionsFrom(ps, 1, 2)

\* draw() that strokes the connection lines over the particles
drawLinesLast(ps, hasCtx) ==
    IF ~hasCtx THEN <<Call("TypeError", 0, 0, 0)>>
    ELSE <<Call("fillRect", 0, 0, OpacityOne \div 20)>>
         \o [i \in 1..Len(ps) |-> Call("particle.draw", i, 0, 0)]
         \o drawConnections(ps)

\* draw(): the calls it makes.  Without a context its first statement
\* throws a TypeError and nothing is painted.
draw(ps, hasCtx) ==
    IF ~hasCtx THEN <<Call("TypeError", 0, 0, 0)>>
    ELSE <<Call("fillRect", 0, 0, OpacityOne \div 20)>>
         \o drawConnections(ps)
         \o [i \in 1..Len(ps) |-> Call("particle.draw", i, 0, 0)]

\* the calls of one animate(), ps being the particles before it
FrameCalls(ps, m, cv, hasCtx) ==
    <<Call("requestAnimationFrame", 0, 0, 0)>>
    \o [i \in 1..Len(ps) |-> Call("particle.update", i, 0, 0)]
    \o draw(update(ps, m, cv), hasCtx)

---------------------------------------------------------------------------
(* GalaxyBackground: construction, listeners and frames *)

\* a resize listener that resizes the canvas and keeps the particles
ResizeFuncKeepsParticles ==
    /\ canvas' = resizeCanvas(hasParent, container', viewport')
    /\ frameLog' = << >>
    /\ UNCHANGED <<particles, born>>

\* the resize listener's func: resizeCanvas(), then createParticles()
ResizeFunc ==
    /\ canvas' = resizeCanvas(hasParent, container', viewport')
    /\ particles' \in createParticles(canvas')
    /\ born' = particles'
    /\ frameLog' = << >>

MouseMoveFuncOnlyX(pos) ==
    [x |-> <<pos.x - CanvasRect.left>>, y |-> mouse.y]

\* the mousemove listener's func, for an event at client position pos
MouseMoveFunc(pos) ==
    [x |-> <<pos.x - CanvasRect.left>>, y |-> <<pos.y - CanvasRect.top>>]

\* the constructor and init(), getContext("2d") giving a context or, for
\* FALSE in contexts, null (the canvas has a context of another type).
\* init() runs animate(), so it leaves one frame made; without a context the
\* draw() of that frame throws and init() never logs.
InitWith(contexts) ==
    /\ canvasFound \in BOOLEAN
    /\ hasParent = canvasFound
    /\ \E l \in Layouts : viewport = l.viewport /\ container = l.container
    /\ mouse = NullMouse
    /\ resizeThrottle = NewThrottle
    /\ mouseThrottle = NewThrottle
    /\ ptr = NoPtr
    /\ WidgetsIdle
    /\ destroyed = FALSE
    /\ IF initProceeds(canvasFound)
       THEN /\ canvas = resizeCanvas(hasParent, container, viewport)
            /\ ctx \in contexts
            /\ born \in createParticles(canvas)
            /\ particles = update(born, mouse, canvas)
            /\ frameLog = FrameCalls(born, mouse, canvas, ctx)
            /\ listeners = AllListeners
            /\ animationId = 1
            /\ rafPending = {1}
            /\ nextRafId = 2
            /\ consoleLog = IF ctx THEN "initialized" ELSE "TypeError"
       ELSE /\ canvas = NoCanvas
            /\ ctx = FALSE
            /\ particles = << >>
            /\ born = << >>
            /\ frameLog = << >>
            /\ listeners = {}
            /\ animationId = 0
            /\ rafPending = {}
            /\ nextRafId = 1
            /\ consoleLog = "error"

\* the page as it is loaded: its canvas gives a 2d context
Init == InitWith({TRUE})

\* code outside the class takes the canvas out of the page
CanvasRemoved ==
    /\ hasParent
    /\ hasParent' = FALSE
    /\ UNCHANGED <<widgets, canvasFound, ctx, born, frameLog,
                   consoleLog, listeners, viewport, container,
                   canvas, particles, mouse, animationId, rafPending,
                   nextRafId, resizeThrottle, mouseThrottle, ptr, destroyed>>

\* the window is resized and a resize event is dispatched
WindowResize ==
    /\ \E l \in Layouts :
           /\ l.viewport # viewport
           /\ viewport' = l.viewport
           /\ container' = l.container
    /\ IF "resize" \in listeners
       THEN /\ resizeThrottle' = throttle(resizeThrottle).state
            /\ IF throttle(resizeThrottle).run
               THEN ResizeFunc
               ELSE UNCHANGED <<canvas, particles, born, frameLog>>
       ELSE UNCHANGED <<resizeThrottle, canvas, particles, born, frameLog>>
    /\ UNCHANGED <<widgets, canvasFound, ctx,
                   hasParent, consoleLog, listeners, mouse,
                   animationId, rafPending, nextRafId, mouseThrottle, ptr,
                   destroyed>>

\* the pointer moves to another place in the window: a mouseleave event on
\* the canvas if it leaves it, then a mousemove event on the window
PointerMove ==
    \E pos \in ClientPositions \ {ptr} :
        LET left == Over(ptr) /\ ~Over(pos) /\ "mouseleave" \in listeners
            m1 == IF left THEN NullMouse ELSE mouse
            call == throttle(mouseThrottle)
        IN  /\ ptr' = pos
            /\ IF "mousemove" \in listeners
               THEN /\ mouseThrottle' = call.state
                    /\ mouse' = IF call.run THEN MouseMoveFunc(pos) ELSE m1
               ELSE /\ mouseThrottle' = mouseThrottle
                    /\ mouse' = m1
            /\ UNCHANGED <<widgets, canvasFound, ctx, born, frameLog,
                           hasParent, consoleLog, listeners,
                           viewport, container, canvas, particles,
                           animationId, rafPending, nextRafId,
                           resizeThrottle, destroyed>>

\* the pointer leaves the window: a mouseleave event on the canvas if it was
\* over it
PointerExit ==
    /\ ptr # NoPtr
    /\ ptr' = NoPtr
    /\ mouse' = IF Over(ptr) /\ "mouseleave" \in listeners
                THEN NullMouse ELSE mouse
    /\ UNCHANGED <<widgets, canvasFound, ctx, born, frameLog,
                   hasParent, consoleLog, listeners, viewport,
                   container, canvas, particles, animationId, rafPending,
                   nextRafId, resizeThrottle, mouseThrottle, destroyed>>

\* time passes, by one of the steps
Elapse(steps) ==
    /\ \E d \in steps :
           /\ resizeThrottle' = Elapsed(resizeThrottle, d, ResizeLimit)
           /\ mouseThrottle' = Elapsed(mouseThrottle, d, MouseLimit)
    /\ UNCHANGED <<widgets, canvasFound, ctx, born, frameLog,
                   hasParent, consoleLog, listeners, viewport,
                   container, canvas, particles, mouse, animationId,
                   rafPending, nextRafId, ptr, destroyed>>

\* the resize throttle's timer callback runs
ResizeTimer ==
    /\ TimerDue(resizeThrottle, ResizeLimit)
    /\ resizeThrottle' = TimerFire(resizeThrottle)
    /\ UNCHANGED <<widgets, canvasFound, ctx, born, frameLog,
                   hasParent, consoleLog, listeners, viewport,
                   container, canvas, particles, mouse, animationId,
                   rafPending, nextRafId, mouseThrottle, ptr, destroyed>>

\* the mousemove throttle's timer callback runs
MouseTimer ==
    /\ TimerDue(mouseThrottle, MouseLimit)
    /\ mouseThrottle' = TimerFire(mouseThrottle)
    /\ UNCHANGED <<widgets, canvasFound, ctx, born, frameLog,
                   hasParent, consoleLog, listeners, viewport,
                   container, canvas, particles, mouse, animationId,
                   rafPending, nextRafId, resizeThrottle, ptr, destroyed>>

\* animate() that requests the next frame after update() and draw(): an
\* exception of draw() then leaves no frame requested
animateRequestsLast(last) ==
    /\ nextRafId <= last
    /\ \E id \in rafPending :
           rafPending' = IF ctx THEN (rafPending \ {id}) \cup {nextRafId}
                         ELSE rafPending \ {id}
    /\ animationId' = IF ctx THEN nextRafId ELSE animationId
    /\ nextRafId' = nextRafId + 1
    /\ particles' = update(particles, mouse, canvas)
    /\ frameLog' = FrameCalls(particles, mouse, canvas, ctx)
    /\ UNCHANGED <<widgets, canvasFound, ctx, born, hasParent, consoleLog, listeners,
                   viewport, container, canvas, mouse, resizeThrottle,
                   mouseThrottle, ptr, destroyed>>

\* animate() that requests two frames
animateRequestsTwice(last) ==
    /\ nextRafId <= last
    /\ \E id \in rafPending :
           rafPending' = (rafPending \ {id}) \cup {nextRafId, nextRafId + 1}
    /\ animationId' = nextRafId + 1
    /\ nextRafId' = nextRafId + 2
    /\ particles' = update(particles, mouse, canvas)
    /\ frameLog' = FrameCalls(particles, mouse, canvas, ctx)
    /\ UNCHANGED <<widgets, canvasFound, ctx, born, hasParent, consoleLog, listeners,
                   viewport, container, canvas, mouse, resizeThrottle,
                   mouseThrottle, ptr, destroyed>>

\* animate(), run by the browser as a pending frame callback: it requests the
\* next frame, then update() and draw().  Frame ids grow forever: the model
\* runs frames while the next id is at most last.
animateWithin(last) ==
    /\ nextRafId <= last
    /\ \E id \in rafPending :
           rafPending' = (rafPending \ {id}) \cup {nextRafId}
    /\ animationId' = nextRafId
    /\ nextRafId' = nextRafId + 1
    /\ particles' = update(particles, mouse, canvas)
    /\ frameLog' = FrameCalls(particles, mouse, canvas, ctx)
    /\ UNCHANGED <<widgets, canvasFound, ctx, born,
                   hasParent, consoleLog, listeners, viewport,
                   container, canvas, mouse, resizeThrottle, mouseThrottle,
                   ptr, destroyed>>

animate == animateWithin(MaxFrames)

cancelNothing(pending, id) == pending

\* cancelAnimationFrame(id)
cancelAnimationFrame(pending, id) == pending \ {id}

\* destroy()
destroy ==
    /\ rafPending' = IF animationId # 0
                     THEN cancelAnimationFrame(rafPending, animationId)
                     ELSE rafPending
    /\ particles' = << >>
    /\ born' = << >>
    /\ destroyed' = TRUE
    /\ UNCHANGED <<widgets, canvasFound, ctx, frameLog,
                   hasParent, consoleLog, listeners, viewport,
                   container, canvas, mouse, animationId, nextRafId,
                   resizeThrottle, mouseThrottle, ptr>>

Next ==
    \/ CanvasRemoved
    \/ WindowResize
    \/ PointerMove
    \/ PointerExit
    \/ Elapse(TimeSteps)
    \/ ResizeTimer
    \/ MouseTimer
    \/ animate
    \/ destroy

Spec == Init /\ [][Next]_vars

\* the throttled handlers alone, on a finer clock: no frame runs, destroy()
\* is not called and the canvas stays in the page
NextThrottle ==
    \/ WindowResize
    \/ PointerMove
    \/ PointerExit
    \/ Elapse(FineTimeSteps)
    \/ ResizeTimer
    \/ MouseTimer

SpecThrottle == Init /\ [][NextThrottle]_vars

---------------------------------------------------------------------------
(* GalaxyParticle.update on its own: a running field whose particles and
   pointer state are drawn from input sets, and whose frames run *)

ParticleCanvas == [w |-> 300, h |-> 4]

\* pointer states: none, one a particle can coincide with, one far away
MouseInputs ==
    { NullMouse,
      [x |-> <<2>>, y |-> <<2>>],
      [x |-> <<250>>, y |-> <<2>>] }

\* particles as update() can meet them
ParticleInputs ==
    { [x |-> x0, y |-> <<2 * Scale>>,
       radius |-> 2 * Scale, baseRadius |-> 2 * Scale,
       color |-> 1,
       speedX |-> sx, speedY |-> sy,
       pulsePhase |-> 0, pulseSpeed |-> 2] :
      x0 \in {<<0>>, <<2 * Scale + Scale \div 4>>,
              <<ConnectionDistance * Scale>>, <<ParticleCanvas.w * Scale - 1>>},
      sx \in {-(Scale \div 4), 0, Scale \div 8},
      sy \in {0, Scale \div 8} }

InitParticle ==
    /\ canvasFound = TRUE
    /\ hasParent = TRUE
    /\ consoleLog = "initialized"
    /\ listeners = AllListeners
    /\ viewport = ParticleCanvas
    /\ container = ParticleCanvas
    /\ canvas = resizeCanvas(hasParent, container, viewport)
    /\ ctx = TRUE
    /\ particles \in [1..numParticles -> ParticleInputs]
    /\ born = particles
    /\ frameLog = draw(particles, ctx)
    /\ mouse \in MouseInputs
    /\ animationId = 1
    /\ rafPending = {1}
    /\ nextRafId = 2
    /\ resizeThrottle = NewThrottle
    /\ mouseThrottle = NewThrottle
    /\ ptr = NoPtr
    /\ WidgetsIdle
    /\ destroyed = FALSE

\* the last frame id of a behaviour of this field
MaxParticleFrames == 4

NextParticle == animateWithin(MaxParticleFrames)

SpecParticle == InitParticle /\ [][NextParticle]_vars

\* the pointer is exactly where the particle is after its integration step
Coincident(p, m) ==
    /\ m.x # Null /\ m.y # Null
    /\ FAdd(p.x, <<p.speedX>>) = <<m.x[1] * Scale>>
    /\ FAdd(p.y, <<p.speedY>>) = <<m.y[1] * Scale>>

\* C4: an update with the pointer exactly at the particle's position after
\* integration gives no NaN position and leaves the position as the
\* integration step left it (the pointer term is skipped)
C4_CoincidentPointerSkipped ==
    [][\A i \in 1..Len(particles) :
          (nextRafId' # nextRafId /\ Coincident(particles[i], mouse)) =>
              /\ ~IsNaN(particles'[i].x) /\ ~IsNaN(particles'[i].y)
              /\ particles'[i].x = FAdd(particles[i].x, <<particles[i].speedX>>)
              /\ particles'[i].y = FAdd(particles[i].y, <<particles[i].speedY>>)]_vars

---------------------------------------------------------------------------
(* Particle count *)

\* C1 as stated: after a successful init the collection has numParticles
\* elements in every reachable state, destroy() included
C1_CountInEveryState ==
    canvasFound => Len(particles) = numParticles

\* C1 as amended: after a successful init the collection has numParticles
\* elements in every state until destroy() is called; once destroy() has been
\* called it is empty or has numParticles elements
C1_CountUntilDestroy ==
    canvasFound =>
        \/ Len(particles) = numParticles
        \/ destroyed /\ Len(particles) = 0

\* a resize was handled and frames ran, destroy() not yet called
C1_Witness ==
    /\ canvasFound /\ ~destroyed
    /\ resizeThrottle.inThrottle
    /\ nextRafId > 2

---------------------------------------------------------------------------
(* Teardown *)

\* C2: once destroy() has been called animate() never runs again: no step
\* taken after teardown requests a frame or updates a particle
C2_NoFrameAfterDestroy ==
    [][destroyed =>
          /\ nextRafId' = nextRafId
          /\ animationId' = animationId
          /\ rafPending' = {}]_vars

\* destroy() was called while a frame was pending and frames were left to
\* run, and a resize event came after it
C2_Witness ==
    /\ destroyed
    /\ nextRafId <= MaxFrames
    /\ Len(particles) > 0

\* C3: after destroy() a resize, mousemove or mouseleave event leaves the
\* particle collection empty and the canvas size and pointer state unchanged
C3_HandlersInertAfterDestroy ==
    [][destroyed =>
          /\ particles' = << >>
          /\ canvas' = canvas
          /\ mouse' = mouse]_vars

\* C5: when the canvas id does not resolve the constructor logs an error and
\* the controller stays inert: no frame is ever requested, the collection
\* stays empty, no listener is registered (so no handler ever runs)
C5_InertWithoutCanvas ==
    ~canvasFound =>
        /\ consoleLog = "error"
        /\ nextRafId = 1 /\ rafPending = {} /\ animationId = 0
        /\ particles = << >>
        /\ listeners = {}
        /\ mouse = NullMouse
        /\ resizeThrottle = NewThrottle /\ mouseThrottle = NewThrottle

\* the canvas was not found, and the pointer has moved and destroy() was
\* called since
C5_Witness ==
    ~canvasFound /\ ptr # NoPtr /\ destroyed

---------------------------------------------------------------------------
(* The throttled handlers *)

\* C6: a call made while no window is open runs func at once and opens a
\* window; a call made while the window is open is dropped; the window's
\* closing runs nothing on a dropped call's behalf; two runs of func are at
\* least the limit apart
C6_ThrottleWindow ==
    [][/\ (viewport' # viewport /\ "resize" \in listeners) =>
             IF resizeThrottle.inThrottle
             THEN UNCHANGED <<canvas, particles, resizeThrottle>>
             ELSE /\ canvas' = resizeCanvas(hasParent, container', viewport')
                  /\ resizeThrottle'.inThrottle /\ resizeThrottle'.timerSet
                  /\ resizeThrottle'.sinceRun = 0
       /\ (ptr' # ptr /\ ptr' # NoPtr /\ "mousemove" \in listeners) =>
             IF mouseThrottle.inThrottle
             THEN mouseThrottle' = mouseThrottle /\ mouse' \in {mouse, NullMouse}
             ELSE /\ mouse' = MouseMoveFunc(ptr')
                  /\ mouseThrottle'.inThrottle /\ mouseThrottle'.timerSet
                  /\ mouseThrottle'.sinceRun = 0
       /\ (resizeThrottle.inThrottle /\ ~resizeThrottle'.inThrottle) =>
             /\ resizeThrottle.sinceRun >= ResizeLimit
             /\ UNCHANGED <<canvas, particles, mouse>>
       /\ (mouseThrottle.inThrottle /\ ~mouseThrottle'.inThrottle) =>
             /\ mouseThrottle.sinceRun >= MouseLimit
             /\ UNCHANGED <<canvas, particles, mouse>>
       /\ resizeThrottle'.gap = -1 \/ resizeThrottle'.gap >= ResizeLimit
       /\ mouseThrottle'.gap = -1 \/ mouseThrottle'.gap >= MouseLimit]_vars

\* both handlers have run twice, and a resize event arrives in an open
\* window of the resize handler part of which has passed
C6_Witness ==
    /\ resizeThrottle.gap >= ResizeLimit
    /\ mouseThrottle.gap >= MouseLimit
    /\ resizeThrottle.inThrottle
    /\ resizeThrottle.sinceRun > 0 /\ resizeThrottle.sinceRun < ResizeLimit
    /\ mouseThrottle.inThrottle
    /\ mouseThrottle.sinceRun > 0 /\ mouseThrottle.sinceRun < MouseLimit
    /\ canvas # resizeCanvas(hasParent, container, viewport)

\* C7: whenever the throttle window is closed, the canvas has the size its
\* container had at the last resize event, and the stored pointer is the
\* surface-local position of the last pointer-move event
C7_ReflectsLastInput ==
    canvasFound =>
        /\ ~resizeThrottle.inThrottle =>
               canvas = resizeCanvas(hasParent, container, viewport)
        /\ (~mouseThrottle.inThrottle /\ ptr # NoPtr) =>
               mouse = MouseMoveFunc(ptr)

\* C8: after init the canvas's width and height are, in every reachable
\* state, those of its parent (of the window when it has none)
C8_CanvasMatchesContainer ==
    canvasFound => canvas = resizeCanvas(hasParent, container, viewport)

---------------------------------------------------------------------------
(* The pointer state *)

\* C9: mouse.x and mouse.y are both null or both numbers
C9_PointerBothOrNeither ==
    \/ mouse.x = Null /\ mouse.y = Null
    \/ /\ mouse.x # Null /\ Len(mouse.x) = 1 /\ mouse.x[1] \in Int
       /\ mouse.y # Null /\ Len(mouse.y) = 1 /\ mouse.y[1] \in Int

\* the pointer state was set by a mousemove event
C9_Witness ==
    mouse.x # Null /\ mouseThrottle.inThrottle /\ nextRafId > 2

\* C10: the pointer state is null whenever the pointer is not over the
\* canvas
C10_NullWhileOutside ==
    ~Over(ptr) => mouse = NullMouse

---------------------------------------------------------------------------
(* Free motion: a field on a small canvas whose pointer stays null, so that
   its particles reach both edges within a few frames *)

\* the last frame id of a behaviour of free motion
MaxMotionFrames == 8

MotionCanvas == [w |-> 1, h |-> 1]

\* particles as the constructor returns them on that canvas: positions in
\* [0, size), speeds in [-Scale/4, Scale/4)
MotionInputs ==
    { [x |-> x0, y |-> <<(MotionCanvas.h * Scale) \div 2>>,
       radius |-> 2 * Scale, baseRadius |-> 2 * Scale,
       color |-> 1,
       speedX |-> sx, speedY |-> sy,
       pulsePhase |-> 0, pulseSpeed |-> 2] :
      x0 \in {<<0>>, <<MotionCanvas.w * Scale - 1>>},
      sx \in {-(Scale \div 4), 0, Scale \div 8},
      sy \in {-(Scale \div 4), Scale \div 8} }

\* the field after init(): the particles as created, then the first frame
InitMotion ==
    /\ canvasFound = TRUE
    /\ hasParent = TRUE
    /\ consoleLog = "initialized"
    /\ listeners = AllListeners
    /\ viewport = MotionCanvas
    /\ container = MotionCanvas
    /\ canvas = resizeCanvas(hasParent, container, viewport)
    /\ ctx = TRUE
    /\ mouse = NullMouse
    /\ born \in [1..numParticles -> MotionInputs]
    /\ particles = update(born, mouse, canvas)
    /\ frameLog = FrameCalls(born, mouse, canvas, ctx)
    /\ animationId = 1
    /\ rafPending = {1}
    /\ nextRafId = 2
    /\ resizeThrottle = NewThrottle
    /\ mouseThrottle = NewThrottle
    /\ ptr = NoPtr
    /\ WidgetsIdle
    /\ destroyed = FALSE

NextMotion == animateWithin(MaxMotionFrames)

SpecMotion == InitMotion /\ [][NextMotion]_vars

\* the number of update() calls particle i has had since its creation
Updates(i) ==
    (particles[i].pulsePhase - born[i].pulsePhase) \div born[i].pulseSpeed

\* a particle lies on the canvas, edges included
OnCanvas(p) ==
    /\ FLt(<<-1>>, p.x) /\ FLt(p.x, <<canvas.width * Scale + 1>>)
    /\ FLt(<<-1>>, p.y) /\ FLt(p.y, <<canvas.height * Scale + 1>>)

---------------------------------------------------------------------------
(* Particle motion *)

\* C11: with the pointer null throughout, a particle created on the canvas
\* stays within one frame's overshoot of the edges after any number of
\* updates: -|speedX| <= x <= W + |speedX|, -|speedY| <= y <= H + |speedY|,
\* hence within [-1, W + 1] x [-1, H + 1]
C11_WithinOvershoot ==
    \A i \in 1..Len(particles) :
        LET p == particles[i]
        IN  (mouse = NullMouse /\ OnCanvas(born[i])) =>
                /\ ~IsNaN(p.x) /\ ~IsNaN(p.y)
                /\ -Abs(p.speedX) <= p.x[1]
                /\ p.x[1] <= canvas.width * Scale + Abs(p.speedX)
                /\ -Abs(p.speedY) <= p.y[1]
                /\ p.y[1] <= canvas.height * Scale + Abs(p.speedY)
                /\ -Scale <= p.x[1] /\ p.x[1] <= (canvas.width + 1) * Scale
                /\ -Scale <= p.y[1] /\ p.y[1] <= (canvas.height + 1) * Scale

\* a particle created at the left edge has gone out there, come back and
\* is now out beyond the right edge
C11_Witness ==
    \E i \in 1..Len(particles) :
        /\ mouse = NullMouse
        /\ born[i].x = <<0>> /\ born[i].speedX < 0
        /\ FLt(<<canvas.width * Scale>>, particles[i].x)

\* the integration step of update() carries the coordinate v, moving at
\* speed s, out of [0, size]
Crosses(v, s, size) ==
    LET v1 == FAdd(v, <<s>>)
    IN  FLt(v1, <<0>>) \/ FLt(<<size * Scale>>, v1)

\* C12: through every sequence of updates, whatever the pointer state,
\* |speedX| and |speedY| keep the values they had at creation: an update
\* negates a velocity component when the boundary test fires and leaves it
\* alone otherwise, pointer term or not
C12_SpeedMagnitudeKept ==
    [][\A i \in 1..Len(particles) :
          LET p == particles[i]
              q == particles'[i]
          IN  /\ Abs(q.speedX) = Abs(born'[i].speedX)
              /\ Abs(q.speedY) = Abs(born'[i].speedY)
              /\ q.speedX = IF Crosses(p.x, p.speedX, canvas.width)
                            THEN -p.speedX ELSE p.speedX
              /\ q.speedY = IF Crosses(p.y, p.speedY, canvas.height)
                            THEN -p.speedY ELSE p.speedY]_vars

\* a particle the pointer has pulled off its line, and whose speedX the
\* boundary test has negated
C12_Witness ==
    \E i \in 1..Len(particles) :
        /\ mouse # NullMouse
        /\ Updates(i) >= 2
        /\ born[i].speedX # 0
        /\ particles[i].speedX = -born[i].speedX
        /\ ~IsNaN(particles[i].x)
        /\ particles[i].x # <<born[i].x[1] + born[i].speedX>>

\* one update of the coordinate v at speed s on an axis of the given size,
\* as overshoot-then-reflect has it: v1 and s1 are the values afterwards
Reflects(v, s, v1, s1, size) ==
    /\ Crosses(v, s, size) =>
           /\ v1 = FAdd(v, <<s>>)
           /\ FLt(v1, <<0>>) \/ FLt(<<size * Scale>>, v1)
           /\ s1 = -s
    /\ FLt(v, <<0>>) => v1 = FAdd(v, <<Abs(s)>>) /\ ~FLt(v1, <<0>>)
    /\ FLt(<<size * Scale>>, v) =>
           v1 = FSub(v, <<Abs(s)>>) /\ ~FLt(<<size * Scale>>, v1)

\* C13: reflection is overshoot-then-reflect: an update whose integration
\* carries x out of [0, W] keeps the overshot x and negates speedX, and with
\* no pointer the next update moves x back toward the interior by |speedX|;
\* the same for y, speedY and H, each axis on its own
C13_OvershootThenReflect ==
    [][\A i \in 1..Len(particles) :
          LET p == particles[i]
              q == particles'[i]
          IN  (mouse = NullMouse /\ nextRafId' # nextRafId) =>
                  /\ Reflects(p.x, p.speedX, q.x, q.speedX, canvas.width)
                  /\ Reflects(p.y, p.speedY, q.y, q.speedY, canvas.height)]_vars

\* a particle beyond the right edge after its reflection, its y still
\* inside and its speedY as created
C13_Witness ==
    \E i \in 1..Len(particles) :
        /\ mouse = NullMouse
        /\ FLt(<<canvas.width * Scale>>, particles[i].x)
        /\ particles[i].speedX < 0
        /\ born[i].speedX > 0
        /\ FLt(<<0>>, particles[i].y)
        /\ particles[i].speedY = born[i].speedY

\* a particle created as b crosses no edge in its first n updates: its
\* integration steps all end in [0, W] x [0, H]
NoCrossing(b, n) ==
    \A k \in 1..n :
        /\ 0 <= b.x[1] + k * b.speedX
        /\ b.x[1] + k * b.speedX <= canvas.width * Scale
        /\ 0 <= b.y[1] + k * b.speedY
        /\ b.y[1] + k * b.speedY <= canvas.height * Scale

\* C14: after N updates with the pointer null and no boundary crossing, a
\* particle is at its initial position plus N times its velocity, and its
\* velocity is unchanged
C14_LinearMotion ==
    \A i \in 1..Len(particles) :
        LET b == born[i]
            p == particles[i]
            n == Updates(i)
        IN  (mouse = NullMouse /\ NoCrossing(b, n)) =>
                /\ p.x = <<b.x[1] + n * b.speedX>>
                /\ p.y = <<b.y[1] + n * b.speedY>>
                /\ p.speedX = b.speedX
                /\ p.speedY = b.speedY

\* a particle moving on both axes has had four updates and crossed no edge
C14_Witness ==
    \E i \in 1..Len(particles) :
        /\ mouse = NullMouse
        /\ Updates(i) >= 4
        /\ NoCrossing(born[i], Updates(i))
        /\ born[i].speedX # 0 /\ born[i].speedY # 0

---------------------------------------------------------------------------
(* Replacing the particles *)

\* the field and the window's resize events alone: the pointer stays away
NextResize ==
    \/ CanvasRemoved
    \/ WindowResize
    \/ Elapse(TimeSteps)
    \/ ResizeTimer
    \/ animate
    \/ destroy

SpecResize == Init /\ [][NextResize]_vars

\* the collection is the configured count of particles that their
\* constructor has just returned for the canvas as it is: each lies on it
Replaced ==
    /\ Len(born) = numParticles
    /\ Len(particles) = numParticles
    /\ \A i \in 1..Len(born) :
           /\ born[i] \in GalaxyParticle(canvas.width, canvas.height)
           /\ OnCanvas(born[i])

\* this step is a resize event that the throttle lets through
HandledResize ==
    /\ viewport' # viewport
    /\ "resize" \in listeners
    /\ ~resizeThrottle.inThrottle

---------------------------------------------------------------------------
(* Connection lines *)

\* the opacity grows as the distance shrinks, over [0, 150]
OpacityDecreasing ==
    \A d \in 0..(ConnectionDistance * Scale - 1) :
        Opacity(<<d>>) > Opacity(<<d + 1>>)

\* the strokes of the latest frame
Strokes == { k \in 1..Len(frameLog) : frameLog[k].op = "stroke" }

\* C16: the opacity (1 - distance / 150) * 0.3 decreases as the distance
\* grows, is exactly 0.3 at distance 0 and exactly 0 at distance 150; a line
\* is stroked only between particles less than 150 apart, so that every
\* stroked line has an opacity in (0, 0.3]
C16_StrokeOpacity ==
    /\ 10 * Opacity(<<0>>) = 3 * OpacityOne
    /\ Opacity(<<ConnectionDistance * Scale>>) = 0
    /\ OpacityDecreasing
    /\ \A k \in Strokes :
           LET line == frameLog[k]
               distance == ConnectionLength(particles[line.i], particles[line.j])
           IN  /\ FLt(distance, <<ConnectionDistance * Scale>>)
               /\ 10 * line.opacity =
                      3 * (OpacityOne - 10 * distance[1])
               /\ 0 < line.opacity
               /\ 10 * line.opacity <= 3 * OpacityOne

\* a frame has stroked a line between two particles that are apart, and
\* fainter than 0.3
C16_Witness ==
    /\ nextRafId > 2
    /\ \E k \in Strokes :
           /\ 0 < frameLog[k].opacity
           /\ 10 * frameLog[k].opacity < 3 * OpacityOne
           /\ particles[frameLog[k].i].x # particles[frameLog[k].j].x

---------------------------------------------------------------------------
(* The frame loop: the page loaded with or without a 2d context for its
   canvas, its frames, the canvas taken out of the page and destroy().  The
   browser runs every frame callback it has pending. *)

\* the last frame id of a behaviour of the loop
MaxLoopFrames == 4

InitLoop == InitWith(BOOLEAN)

NextLoop ==
    \/ animateWithin(MaxLoopFrames)
    \/ CanvasRemoved
    \/ destroy

SpecLoop ==
    InitLoop /\ [][NextLoop]_vars /\ WF_vars(animateWithin(MaxLoopFrames))

\* the requestAnimationFrame calls of the latest frame
Requests == { k \in 1..Len(frameLog) : frameLog[k].op = "requestAnimationFrame" }

\* C17: the loop keeps scheduling until it is torn down: every tick
\* schedules exactly one next tick, also when its draw() throws or its
\* canvas is no longer in the page, so that until destroy() is called one
\* next tick is pending; the browser delivering its frames, ticks go on
\* (here: up to the last frame id of the model)
C17_LoopKeepsScheduling ==
    /\ []((canvasFound /\ ~destroyed) =>
              /\ animationId # 0
              /\ rafPending = {animationId})
    /\ [][nextRafId' # nextRafId =>
              /\ Cardinality(Requests') = 1
              /\ rafPending' = {nextRafId}
              /\ nextRafId \notin rafPending]_vars
    /\ [](canvasFound => <>(destroyed \/ nextRafId > MaxLoopFrames))

\* frames go on to the last one although the draw() of each has thrown and
\* the canvas has left the page
C17_Witness ==
    /\ canvasFound /\ ~destroyed
    /\ ~ctx /\ ~hasParent
    /\ nextRafId > MaxLoopFrames
    /\ rafPending = {animationId}
    /\ \E k \in 1..Len(frameLog) : frameLog[k].op = "TypeError"

---------------------------------------------------------------------------
(* The order of a frame *)

\* C18: in every frame tick each particle's update runs, once, before
\* anything is painted; then the translucent rectangle over the whole canvas
\* is painted, then the connection lines, then each particle's draw runs,
\* once
C18_FrameOrder ==
    LET n == Len(particles)
        last == Len(frameLog)
    IN  frameLog # << >> =>
            /\ last >= 2 * n + 2
            /\ frameLog[1].op = "requestAnimationFrame"
            /\ \A i \in 1..n : frameLog[1 + i] = Call("particle.update", i, 0, 0)
            /\ frameLog[n + 2].op = "fillRect"
            /\ 20 * frameLog[n + 2].opacity = OpacityOne
            /\ \A k \in (n + 3)..(last - n) : frameLog[k].op = "stroke"
            /\ \A i \in 1..n :
                   frameLog[last - n + i] = Call("particle.draw", i, 0, 0)

\* a frame run by the browser has updated the particles, painted the
\* rectangle, stroked a line and drawn the particles
C18_Witness ==
    /\ nextRafId > 2
    /\ Len(particles) = numParticles
    /\ Len(frameLog) > 2 * numParticles + 2
    /\ frameLog[numParticles + 3].op = "stroke"
    /\ frameLog[Len(frameLog)].op = "particle.draw"

---------------------------------------------------------------------------
(* The pointer term *)

\* the pointer, in units, seen from the particle p after its integration
\* step: dx, dy and the distance (NaN each without a pointer)
Toward(p, m) ==
    LET hasMouse == m.x # Null /\ m.y # Null
        dx == IF hasMouse
              THEN FSub(<<m.x[1] * Scale>>, FAdd(p.x, <<p.speedX>>)) ELSE NaN
        dy == IF hasMouse
              THEN FSub(<<m.y[1] * Scale>>, FAdd(p.y, <<p.speedY>>)) ELSE NaN
    IN  [dx |-> dx, dy |-> dy, distance |-> Distance(dx, dy)]

\* the pointer is non-null and 0 < distance < 200
InRange(p, m) ==
    /\ FLt(<<0>>, Toward(p, m).distance)
    /\ FLt(Toward(p, m).distance, <<InteractionRadius * Scale>>)

\* (d / distance) * 2 * (200 - distance) / 200 in units, d and distance
\* integers in units, distance > 0
Pull(d, distance) ==
    TruncDiv(d * 2 * Scale * (InteractionRadius * Scale - distance),
             distance * InteractionRadius * Scale)

\* C19: update() changes the position by the pointer term only when the
\* pointer is non-null and 0 < distance < 200, and then adds to the position
\* the unit vector toward the pointer scaled by 2 * (200 - distance) / 200;
\* with a null pointer or a distance of 200 or more (or 0) it moves the
\* particle by its velocity only
C19_PointerTermInRange ==
    [][\A i \in 1..Len(particles) :
          LET p == particles[i]
              q == particles'[i]
              x1 == FAdd(p.x, <<p.speedX>>)
              y1 == FAdd(p.y, <<p.speedY>>)
              t == Toward(p, mouse)
          IN  nextRafId' # nextRafId =>
                  IF InRange(p, mouse)
                  THEN /\ q.x = FAdd(x1, <<Pull(t.dx[1], t.distance[1])>>)
                       /\ q.y = FAdd(y1, <<Pull(t.dy[1], t.distance[1])>>)
                  ELSE q.x = x1 /\ q.y = y1]_vars

\* the distance from the particle q, where it is, to the pointer
PointerDistance(q, m) ==
    Distance(FSub(<<m.x[1] * Scale>>, q.x), FSub(<<m.y[1] * Scale>>, q.y))

\* v1 - v is zero or has the sign of d
Along(v, v1, d) ==
    IF d > 0 THEN v1[1] >= v[1]
    ELSE IF d < 0 THEN v1[1] <= v[1] ELSE v1 = v

\* the displacement toward a pointer straight ahead grows as it gets closer
PullGrows ==
    LET half == (InteractionRadius * Scale) \div 2
    IN  /\ \A d \in 1..(InteractionRadius * Scale - 1) :
               Pull(d, d) >= Pull(d + 1, d + 1)
        /\ Pull(1, 1) > Pull(half, half)
        /\ Pull(half, half) > 0

\* C20 as stated: with the pointer non-null and 0 < distance < 200, update()
\* pushes the particle away: its distance to the pointer is larger after the
\* pointer term than before it
C20_PushedAway ==
    [][\A i \in 1..Len(particles) :
          (nextRafId' # nextRafId /\ InRange(particles[i], mouse)) =>
              FLt(Toward(particles[i], mouse).distance,
                  PointerDistance(particles'[i], mouse))]_vars

\* C20, amended: with the pointer non-null and 0 < distance < 200, update()
\* moves the particle toward the pointer, by a displacement that grows as
\* the distance shrinks; from a distance of one pixel or more the particle
\* ends no farther from the pointer than it was (from less than a pixel it
\* is carried past it)
C20_PulledToward ==
    /\ PullGrows
    /\ [][\A i \in 1..Len(particles) :
             LET p == particles[i]
                 q == particles'[i]
                 t == Toward(p, mouse)
             IN  (nextRafId' # nextRafId /\ InRange(p, mouse)) =>
                     /\ Along(FAdd(p.x, <<p.speedX>>), q.x, t.dx[1])
                     /\ Along(FAdd(p.y, <<p.speedY>>), q.y, t.dy[1])
                     /\ t.distance[1] >= Scale =>
                            ~FLt(t.distance, PointerDistance(q, mouse))]_vars

\* the first update has brought a particle, a pixel or more from the
\* pointer, closer to it
C20_Witness ==
    \E i \in 1..Len(particles) :
        /\ Updates(i) = 1
        /\ InRange(born[i], mouse)
        /\ Toward(born[i], mouse).distance[1] >= Scale
        /\ FLt(PointerDistance(particles[i], mouse),
               Toward(born[i], mouse).distance)

---------------------------------------------------------------------------
(* Particles and the edges, the pointer moving *)

\* the particle p is outside [0, W] x [0, H]
Outside(p) ==
    \/ FLt(p.x, <<0>>) \/ FLt(<<canvas.width * Scale>>, p.x)
    \/ FLt(p.y, <<0>>) \/ FLt(<<canvas.height * Scale>>, p.y)

\* the particle p is farther outside than it travels in one frame
BeyondTravel(p) ==
    \/ FLt(p.x, <<-Abs(p.speedX)>>)
    \/ FLt(<<canvas.width * Scale + Abs(p.speedX)>>, p.x)
    \/ FLt(p.y, <<-Abs(p.speedY)>>)
    \/ FLt(<<canvas.height * Scale + Abs(p.speedY)>>, p.y)

\* C21: whatever the pointer does, a particle is outside the canvas only
\* transiently: outside after one update, it is back inside after the next,
\* and it is never farther outside than one frame's travel
C21_OutsideOnlyTransiently ==
    [][(nextRafId' # nextRafId /\ canvas' = canvas) =>
           \A i \in 1..Len(particles) :
               /\ Outside(particles[i]) => ~Outside(particles'[i])
               /\ ~BeyondTravel(particles'[i])]_vars

---------------------------------------------------------------------------
(* Connection lines of a larger field: particles at rest or moving together,
   some of them at the same place, some 150 pixels or more apart *)

\* the number of particles of that field
ConnectionParticles == 4

ConnectionInputs ==
    { [x |-> x0, y |-> <<2 * Scale>>,
       radius |-> 2 * Scale, baseRadius |-> 2 * Scale,
       color |-> 1,
       speedX |-> sx, speedY |-> 0,
       pulsePhase |-> 0, pulseSpeed |-> 2] :
      x0 \in {<<Scale>>, <<ConnectionDistance * Scale>>,
              <<(ConnectionDistance + 1) * Scale>>},
      sx \in {0, Scale \div 8} }

InitConnections ==
    /\ canvasFound = TRUE
    /\ hasParent = TRUE
    /\ consoleLog = "initialized"
    /\ listeners = AllListeners
    /\ viewport = ParticleCanvas
    /\ container = ParticleCanvas
    /\ canvas = resizeCanvas(hasParent, container, viewport)
    /\ ctx = TRUE
    /\ mouse = NullMouse
    /\ born \in [1..ConnectionParticles -> ConnectionInputs]
    /\ particles = update(born, mouse, canvas)
    /\ frameLog = FrameCalls(born, mouse, canvas, ctx)
    /\ animationId = 1
    /\ rafPending = {1}
    /\ nextRafId = 2
    /\ resizeThrottle = NewThrottle
    /\ mouseThrottle = NewThrottle
    /\ ptr = NoPtr
    /\ WidgetsIdle
    /\ destroyed = FALSE

NextConnections == animate

SpecConnections == InitConnections /\ [][NextConnections]_vars

\* the particles of a pair are less than 150 pixels apart
Near(pair) ==
    FLt(ConnectionLength(particles[pair[1]], particles[pair[2]]),
        <<ConnectionDistance * Scale>>)

\* the pairs the latest frame has stroked a line for, in their order
Stroked ==
    LET lines == SelectSeq(frameLog, LAMBDA c : c.op = "stroke")
    IN  [k \in 1..Len(lines) |-> <<lines[k].i, lines[k].j>>]

\* C22: in each frame drawConnections() comes to every unordered pair of
\* distinct particles exactly once, n * (n - 1) / 2 pairs for n particles,
\* none of a particle with itself and none twice, and it strokes a line for
\* a pair if and only if its particles are less than 150 apart
C22_EveryPairOnce ==
    LET n == Len(particles)
        tests == ConnectionTests(n, 1, 2)
    IN  /\ 2 * Len(tests) = n * (n - 1)
        /\ \A a \in 1..Len(tests) :
               /\ tests[a][1] # tests[a][2]
               /\ \A b \in 1..Len(tests) :
                      a # b => /\ tests[a] # tests[b]
                               /\ tests[a] # <<tests[b][2], tests[b][1]>>
        /\ \A i, j \in 1..n :
               i < j => \E a \in 1..Len(tests) : tests[a] = <<i, j>>
        /\ Stroked = SelectSeq(tests, Near)

\* a frame of the browser has found pairs at the same place, pairs less
\* than 150 apart and pairs 150 or more apart, and stroked some lines only
C22_Witness ==
    /\ nextRafId > 2
    /\ Len(particles) = ConnectionParticles
    /\ Len(Stroked) > 0
    /\ 2 * Len(Stroked) < Len(particles) * (Len(particles) - 1)
    /\ \E i, j \in 1..Len(particles) :
           i < j /\ ConnectionLength(particles[i], particles[j]) = <<0>>
    /\ \E i, j \in 1..Len(particles) :
           i < j /\ ConnectionLength(particles[i], particles[j])
                        = <<ConnectionDistance * Scale>>

---------------------------------------------------------------------------
(* One animation loop *)

\* C23: in every reachable state at most one frame callback is pending, and
\* between a successful init() and destroy() exactly one is; no sequence of
\* resize events, pointer events and ticks starts a second loop
C23_OneLoop ==
    /\ Cardinality(rafPending) <= 1
    /\ (initProceeds(canvasFound) /\ ~destroyed) => Cardinality(rafPending) = 1
    /\ ~canvasFound => rafPending = {}

\* the one loop after a tick, a handled resize event and a handled pointer
\* move
C23_Witness ==
    /\ ~destroyed
    /\ nextRafId > 2
    /\ resizeThrottle.inThrottle
    /\ mouseThrottle.inThrottle
    /\ mouse # NullMouse
    /\ Cardinality(rafPending) = 1

---------------------------------------------------------------------------
(* A page without the particle canvas: the GalaxyBackground constructor has
   logged its error and nothing of it runs *)

NoGalaxy ==
    /\ canvasFound = FALSE
    /\ hasParent = FALSE
    /\ consoleLog = "error"
    /\ listeners = {}
    /\ viewport = [w |-> 8, h |-> 4]
    /\ container = [w |-> 4, h |-> 2]
    /\ canvas = NoCanvas
    /\ ctx = FALSE
    /\ particles = << >>
    /\ born = << >>
    /\ frameLog = << >>
    /\ mouse = NullMouse
    /\ animationId = 0
    /\ rafPending = {}
    /\ nextRafId = 1
    /\ resizeThrottle = NewThrottle
    /\ mouseThrottle = NewThrottle
    /\ ptr = NoPtr
    /\ destroyed = FALSE

---------------------------------------------------------------------------
(* PortfolioFilter: clicks on the filter buttons and the timers *)

\* the number of clicks of a behaviour
MaxClicks == 3

InitFilter ==
    /\ NoGalaxy
    /\ portfolioFilter = NewPortfolioFilter
    /\ NoSlider
    /\ NoHero
    /\ NoMore

\* a click on a filter button
FilterClick ==
    /\ portfolioFilter.clicks < MaxClicks
    /\ \E filter \in FilterButtons :
           portfolioFilter' =
               [filterItems(portfolioFilter, filter) EXCEPT !.clicks = @ + 1]
    /\ UNCHANGED <<galaxyVars, sliderVars, heroVars, moreVars>>

\* the first of the due timers runs
FilterTimer ==
    LET k == FirstDue(portfolioFilter.timers, 1)
    IN  /\ k # 0
        /\ portfolioFilter' =
               TimerCallback([portfolioFilter EXCEPT !.timers = Without(@, k)],
                             portfolioFilter.timers[k])
        /\ UNCHANGED <<galaxyVars, sliderVars, heroVars, moreVars>>

\* 50 ms pass; due timers run before time goes on
FilterWait ==
    /\ portfolioFilter.timers # << >>
    /\ FirstDue(portfolioFilter.timers, 1) = 0
    /\ portfolioFilter' = [portfolioFilter EXCEPT !.timers = Waited(@)]
    /\ UNCHANGED <<galaxyVars, sliderVars, heroVars, moreVars>>

NextFilter ==
    \/ FilterClick
    \/ FilterTimer
    \/ FilterWait

SpecFilter == InitFilter /\ [][NextFilter]_vars

\* C24: after any sequence of clicks on the filter buttons, also clicks made
\* while timers of an earlier click are pending, once all timers have run
\* every project item has the class hidden if and only if the current
\* filter is not 'all' and is not the item's category
C24_HiddenMatchesFilter ==
    portfolioFilter.timers = << >> =>
        \A k \in 1..Len(ItemCategories) :
            portfolioFilter.hidden[k] <=>
                /\ portfolioFilter.currentFilter # "all"
                /\ portfolioFilter.currentFilter # ItemCategories[k]


---------------------------------------------------------------------------
(* TestimonialsSlider: the handlers bindEvents() installs and the autoplay
   interval.  The galaxy has no canvas and the project filter is left alone. *)

\* the most slides a page has
MaxSlides == 3

\* the number of handler runs of a behaviour
MaxSliderEvents == 5

\* clientX of a touch, pixels
TouchXs == {0, 40, 100}

\* the keys the keydown handler is tried with
Keys == {"ArrowLeft", "ArrowRight", " ", "a"}

InitSlider ==
    /\ NoGalaxy
    /\ NoFilter
    /\ \E n \in 1..MaxSlides, progress \in BOOLEAN :
           testimonialsSlider = NewTestimonialsSlider(n, progress)
    /\ sliderPage = SliderPageLoaded
    /\ NoHero
    /\ NoMore

\* the page after the handler named step has run
After(step, raised) ==
    [sliderPage EXCEPT !.lastStep = step, !.raised = raised,
                       !.events = @ + 1]

\* mouseenter on the slider
SliderMouseEnter ==
    /\ sliderPage.events < MaxSliderEvents
    /\ ~sliderPage.hovering
    /\ testimonialsSlider' = pauseAutoPlay(testimonialsSlider)
    /\ sliderPage' = [After("mouseenter", FALSE) EXCEPT !.hovering = TRUE]
    /\ UNCHANGED <<galaxyVars, filterVars, heroVars, moreVars>>

\* mouseleave on the slider
SliderMouseLeave ==
    /\ sliderPage.events < MaxSliderEvents
    /\ sliderPage.hovering
    /\ testimonialsSlider' = resumeAutoPlay(testimonialsSlider)
    /\ sliderPage' = [After("mouseleave", FALSE) EXCEPT !.hovering = FALSE]
    /\ UNCHANGED <<galaxyVars, filterVars, heroVars, moreVars>>

\* a click on the previous button
SliderPrevClick ==
    /\ sliderPage.events < MaxSliderEvents
    /\ testimonialsSlider' = goToPreviousSlide(testimonialsSlider)
    /\ sliderPage' = After("click", FALSE)
    /\ UNCHANGED <<galaxyVars, filterVars, heroVars, moreVars>>

\* a click on the next button
SliderNextClick ==
    /\ sliderPage.events < MaxSliderEvents
    /\ testimonialsSlider' = goToNextSlide(testimonialsSlider)
    /\ sliderPage' = After("click", FALSE)
    /\ UNCHANGED <<galaxyVars, filterVars, heroVars, moreVars>>

\* a click on a dot
SliderDotClick ==
    /\ sliderPage.events < MaxSliderEvents
    /\ \E index \in DOMAIN testimonialsSlider.dots :
           testimonialsSlider' = goToSlide(testimonialsSlider, index)
    /\ sliderPage' = After("click", FALSE)
    /\ UNCHANGED <<galaxyVars, filterVars, heroVars, moreVars>>

\* keydown on the document; isInViewport() is what the scroll position
\* makes it
SliderKeydown ==
    /\ sliderPage.events < MaxSliderEvents
    /\ \E key \in Keys, isInViewport \in BOOLEAN :
           testimonialsSlider' =
               IF ~isInViewport THEN testimonialsSlider
               ELSE IF key = "ArrowLeft"
               THEN goToPreviousSlide(testimonialsSlider)
               ELSE IF key = "ArrowRight"
               THEN goToNextSlide(testimonialsSlider)
               ELSE IF key = " " THEN toggleAutoPlay(testimonialsSlider)
               ELSE testimonialsSlider
    /\ sliderPage' = After("keydown", FALSE)
    /\ UNCHANGED <<galaxyVars, filterVars, heroVars, moreVars>>

\* touchstart on the slider
SliderTouchStart ==
    /\ sliderPage.events < MaxSliderEvents
    /\ sliderPage.lastStep # "touchstart"
    /\ \E x \in TouchXs :
           testimonialsSlider' = [testimonialsSlider EXCEPT !.startX = x]
    /\ sliderPage' = After("touchstart", FALSE)
    /\ UNCHANGED <<galaxyVars, filterVars, heroVars, moreVars>>

\* touchend on the slider, of the touch that started last
SliderTouchEnd ==
    /\ sliderPage.lastStep = "touchstart"
    /\ \E x \in TouchXs :
           LET swipe == handleSwipe([testimonialsSlider EXCEPT !.endX = x])
           IN  /\ testimonialsSlider' = swipe.s
               /\ sliderPage' = After("touchend", swipe.raised)
    /\ UNCHANGED <<galaxyVars, filterVars, heroVars, moreVars>>

\* visibilitychange of the document
SliderVisibilityChange ==
    /\ sliderPage.events < MaxSliderEvents
    /\ testimonialsSlider' =
           IF ~sliderPage.docHidden THEN pauseAutoPlay(testimonialsSlider)
           ELSE resumeAutoPlay(testimonialsSlider)
    /\ sliderPage' = [After("visibilitychange", FALSE)
                          EXCEPT !.docHidden = ~sliderPage.docHidden]
    /\ UNCHANGED <<galaxyVars, filterVars, heroVars, moreVars>>

\* an autoplay interval the browser runs comes round: its callback
SliderInterval ==
    /\ sliderPage.events < MaxSliderEvents
    /\ testimonialsSlider.autoPlayLive # {}
    /\ testimonialsSlider' = goToNextSlide(testimonialsSlider)
    /\ sliderPage' = After("interval", FALSE)
    /\ UNCHANGED <<galaxyVars, filterVars, heroVars, moreVars>>

NextSlider ==
    \/ SliderMouseEnter
    \/ SliderMouseLeave
    \/ SliderPrevClick
    \/ SliderNextClick
    \/ SliderDotClick
    \/ SliderKeydown
    \/ SliderTouchStart
    \/ SliderTouchEnd
    \/ SliderVisibilityChange
    \/ SliderInterval

SpecSlider == InitSlider /\ [][NextSlider]_vars

\* C25: at most one autoplay interval is running at any time, and it is
\* the one whose handle autoPlayInterval holds, whatever the order of
\* mouseenter, mouseleave, clicks, key presses and visibility changes
C25_OneStoredInterval ==
    /\ Cardinality(testimonialsSlider.autoPlayLive) <= 1
    /\ testimonialsSlider.autoPlayLive
           \subseteq {testimonialsSlider.autoPlayInterval}

\* C26: while the pointer is over the slider no autoplay interval advances
\* the slide, clicks on prev, next or a dot in between included
C26_NoAdvanceWhileHovering ==
    ~(sliderPage.hovering /\ sliderPage.lastStep = "interval")


---------------------------------------------------------------------------
(* TestimonialsSlider: goToSlide(), goToNextSlide() and goToPreviousSlide()
   called in any order, goToSlide() with indexes outside the slides too *)

\* the slides that have the class active
ActiveSlides ==
    {i \in DOMAIN testimonialsSlider.classes :
        "active" \in testimonialsSlider.classes[i]}

\* the dots that have the class active
ActiveDots ==
    {d \in DOMAIN testimonialsSlider.dots : testimonialsSlider.dots[d]}

\* goToSlide(slideIndex) is called
CallGoToSlide ==
    /\ sliderPage.events < MaxSliderEvents
    /\ \E slideIndex \in -1..testimonialsSlider.totalSlides :
           /\ testimonialsSlider' = goToSlide(testimonialsSlider, slideIndex)
           /\ sliderPage' =
                  After(IF slideIndex \in 0..(testimonialsSlider.totalSlides - 1)
                        THEN "goToSlide" ELSE "goToSlide out of range", FALSE)
    /\ UNCHANGED <<galaxyVars, filterVars, heroVars, moreVars>>

\* goToNextSlide() is called
CallGoToNextSlide ==
    /\ sliderPage.events < MaxSliderEvents
    /\ testimonialsSlider' = goToNextSlide(testimonialsSlider)
    /\ sliderPage' = After("goToNextSlide", FALSE)
    /\ UNCHANGED <<galaxyVars, filterVars, heroVars, moreVars>>

\* goToPreviousSlide() is called
CallGoToPreviousSlide ==
    /\ sliderPage.events < MaxSliderEvents
    /\ testimonialsSlider' = goToPreviousSlide(testimonialsSlider)
    /\ sliderPage' = After("goToPreviousSlide", FALSE)
    /\ UNCHANGED <<galaxyVars, filterVars, heroVars, moreVars>>

NextSlideCalls ==
    \/ CallGoToSlide
    \/ CallGoToNextSlide
    \/ CallGoToPreviousSlide

SpecSlideCalls == InitSlider /\ [][NextSlideCalls]_vars

\* C27: with at least one slide, after every call of goToSlide,
\* goToNextSlide or goToPreviousSlide currentSlide is a slide's index, the
\* slide there is the only one with the class active and the dot there the
\* only active dot; goToNextSlide on the last slide goes to slide 0,
\* goToPreviousSlide on slide 0 to the last slide, and goToSlide with an
\* index outside the slides changes nothing of the slider
C27_OneActiveSlide ==
    [][LET s == testimonialsSlider
           last == s.totalSlides - 1
       IN  /\ s'.currentSlide \in 0..last
           /\ ActiveSlides' = {s'.currentSlide}
           /\ ActiveDots' = {s'.currentSlide}
           /\ (sliderPage'.lastStep = "goToNextSlide" /\ s.currentSlide = last)
                  => s'.currentSlide = 0
           /\ (sliderPage'.lastStep = "goToPreviousSlide" /\ s.currentSlide = 0)
                  => s'.currentSlide = last
           /\ sliderPage'.lastStep = "goToSlide out of range" => s' = s]_vars

\* the next slide was asked for on the last of several slides, after
\* another call had set the classes
C27_Witness ==
    /\ sliderPage.lastStep = "goToNextSlide"
    /\ sliderPage.events >= 3
    /\ testimonialsSlider.totalSlides = MaxSlides
    /\ testimonialsSlider.currentSlide = 0
    /\ ActiveSlides = {0}


\* C28: a touchend at least 50 px from the touchstart changes the slide of
\* a slider with several slides, to the next one when the finger moved
\* left and to the previous one when it moved right, a touchend nearer
\* than 50 px leaves the slide, and the touchend handler raises no error
C28_SwipeChangesSlide ==
    [][sliderPage'.lastStep = "touchend" =>
          LET s == testimonialsSlider
              diff == s'.startX - s'.endX
          IN  /\ ~sliderPage'.raised
              /\ Abs(diff) < SwipeThreshold => s'.currentSlide = s.currentSlide
              /\ (diff >= SwipeThreshold /\ s.totalSlides > 1) =>
                     s'.currentSlide = (s.currentSlide + 1) % s.totalSlides
              /\ (-diff >= SwipeThreshold /\ s.totalSlides > 1) =>
                     s'.currentSlide =
                         (s.currentSlide - 1 + s.totalSlides) % s.totalSlides]_vars


---------------------------------------------------------------------------
(* HeroVideoPlayer: the handlers bindEvents() installs, the video's end and
   the timers.  The galaxy has no canvas; the filter and the slider are
   left alone. *)

\* the number of clicks, key presses and video ends of a behaviour
MaxHeroEvents == 5

\* the keys the keydown handler is tried with
HeroKeys == {"Escape", " ", "a"}

InitHero ==
    /\ NoGalaxy
    /\ NoFilter
    /\ NoSlider
    /\ heroVideoPlayer = NewHeroVideoPlayer
    /\ heroPage = HeroPageLoaded
    /\ NoMore

\* the page after the handler named step has run
AfterHero(step) ==
    [heroPage EXCEPT !.lastStep = step, !.before = heroVideoPlayer,
                     !.events = @ + 1]

\* a click on the watch-video button
HeroWatchClick ==
    /\ heroPage.events < MaxHeroEvents
    /\ heroVideoPlayer' = enterVideoMode(heroVideoPlayer)
    /\ heroPage' = AfterHero("watch")
    /\ UNCHANGED <<galaxyVars, filterVars, sliderVars, moreVars>>

\* a click on the video or on the play/pause button
HeroToggleClick ==
    /\ heroPage.events < MaxHeroEvents
    /\ \E plays \in BOOLEAN :
           heroVideoPlayer' = togglePlayPause(heroVideoPlayer, plays)
    /\ heroPage' = AfterHero("toggle")
    /\ UNCHANGED <<galaxyVars, filterVars, sliderVars, moreVars>>

\* a click on the close button
HeroCloseClick ==
    /\ heroPage.events < MaxHeroEvents
    /\ heroVideoPlayer' = exitVideoMode(heroVideoPlayer)
    /\ heroPage' = AfterHero("close")
    /\ UNCHANGED <<galaxyVars, filterVars, sliderVars, moreVars>>

\* keydown on the document
HeroKeydown ==
    /\ heroPage.events < MaxHeroEvents
    /\ \E key \in HeroKeys, plays \in BOOLEAN :
           heroVideoPlayer' =
               IF ~heroVideoPlayer.isVideoMode THEN heroVideoPlayer
               ELSE IF key = "Escape" THEN exitVideoMode(heroVideoPlayer)
               ELSE IF key = " " THEN togglePlayPause(heroVideoPlayer, plays)
               ELSE heroVideoPlayer
    /\ heroPage' = AfterHero("keydown")
    /\ UNCHANGED <<galaxyVars, filterVars, sliderVars, moreVars>>

\* the playing video comes to its end
HeroVideoEnded ==
    /\ heroPage.events < MaxHeroEvents
    /\ heroVideoPlayer.video = "playing"
    /\ heroVideoPlayer' = Ended(heroVideoPlayer)
    /\ heroPage' = AfterHero("ended")
    /\ UNCHANGED <<galaxyVars, filterVars, sliderVars, moreVars>>

\* the first of the due timers runs
HeroTimer ==
    LET k == FirstDue(heroVideoPlayer.timers, 1)
    IN  /\ k # 0
        /\ \E plays \in BOOLEAN :
               heroVideoPlayer' =
                   HeroTimerCallback(
                       [heroVideoPlayer EXCEPT !.timers = Without(@, k)],
                       heroVideoPlayer.timers[k], plays)
        /\ heroPage' = [heroPage EXCEPT !.lastStep = "timer",
                                        !.before = heroVideoPlayer,
                                        !.fired = heroVideoPlayer.timers[k]]
        /\ UNCHANGED <<galaxyVars, filterVars, sliderVars, moreVars>>

\* a second passes; due timers run before time goes on
HeroWait ==
    /\ heroVideoPlayer.timers # << >>
    /\ FirstDue(heroVideoPlayer.timers, 1) = 0
    /\ heroVideoPlayer' = [heroVideoPlayer EXCEPT !.timers = Waited(@)]
    /\ UNCHANGED <<heroPage, galaxyVars, filterVars, sliderVars, moreVars>>

NextHero ==
    \/ HeroWatchClick
    \/ HeroToggleClick
    \/ HeroCloseClick
    \/ HeroKeydown
    \/ HeroVideoEnded
    \/ HeroTimer
    \/ HeroWait

SpecHero == InitHero /\ [][NextHero]_vars

\* the poster timers the browser still has to run
PosterTimers ==
    {k \in 1..Len(heroVideoPlayer.timers) :
        heroVideoPlayer.timers[k].kind = "poster"}

\* C29: in every state isPosterDelay implies isVideoMode, a poster timer is
\* pending only while isPosterDelay is true, and never two of them: out of
\* video mode no poster timer is left to start the video, and
\* enterVideoMode() sets none while one is pending
C29_PosterTimerOnlyInDelay ==
    /\ heroVideoPlayer.isPosterDelay => heroVideoPlayer.isVideoMode
    /\ PosterTimers # {} => heroVideoPlayer.isPosterDelay
    /\ Cardinality(PosterTimers) <= 1

\* video mode was left while the poster timer was pending, and the watch
\* button was clicked while it was pending
C29_Witness ==
    /\ heroPage.lastStep \in {"close", "keydown"}
    /\ heroPage.before.isPosterDelay
    /\ heroPage.before.timers # << >>
    /\ ~heroVideoPlayer.isVideoMode
    /\ heroVideoPlayer.session >= 2

\* C30: the timer set when the video ends and the timer set by
\* showVideoError(), set in a session of video mode, end video mode only
\* in that session: not the session entered after it was left
C30_ExitsOwnSession ==
    [][(/\ heroPage'.fired # heroPage.fired
        /\ heroPage'.fired.kind \in {"ended", "error"}
        /\ heroPage'.fired.session >= 1
        /\ heroVideoPlayer.isVideoMode
        /\ ~heroVideoPlayer'.isVideoMode)
           => heroPage'.fired.session = heroVideoPlayer.session]_vars


---------------------------------------------------------------------------
(* The services section: scroll events, animation frames and the 50 ms
   timer of the handler.  Every other component is left out. *)

exceptServices ==
    <<galaxyVars, filterVars, sliderVars, heroVars, cookieConsent,
      contactForm, loadingManager, counterAnimation, themeManager>>

InitServices ==
    /\ NoGalaxy /\ NoFilter /\ NoSlider /\ NoHero
    /\ NoCookies /\ NoForm /\ NoLoading /\ NoCounters /\ NoTheme
    /\ services = NewServices

\* a scroll event: optimizedScrollHandler() asks for a frame unless one is
\* asked for, and the throttled handler of the ServicesScrollAnimation
\* runs updateScrollProgress() unless its 16 ms window is closed
ServicesScroll ==
    /\ \E y \in ScrollPositions \ {services.scrollY} :
           services' =
               [services EXCEPT
                   !.scrollY = y,
                   !.ticking = TRUE,
                   !.scrollProgress = IF services.inThrottle THEN @
                                      ELSE updateScrollProgress(y),
                   !.inThrottle = TRUE]
    /\ UNCHANGED exceptServices

\* the next animation frame: the throttle's 16 ms are over, a pending stage
\* timer is a frame nearer, and the frame callbacks run in the order they
\* were requested: animate() of the ServicesScrollAnimation, then the
\* handler's callback if a scroll event asked for it
ServicesFrame ==
    /\ services.stageTimer # 0
    /\ LET now == [services EXCEPT
                      !.inThrottle = FALSE,
                      !.stageTimer = IF @ > 0 THEN @ - 1 ELSE @]
           animated == updateAnimation(now)
       IN  services' =
               IF animated.ticking
               THEN handleScrollStage([animated EXCEPT !.ticking = FALSE])
               ELSE animated
    /\ UNCHANGED exceptServices

\* the handler's 50 ms timer runs
ServicesStageTimer ==
    /\ services.stageTimer = 0
    /\ services' =
           [services EXCEPT
               !.stageClasses = @ \cup {services.targetStage},
               !.currentScrollStage = services.targetStage,
               !.isAnimationInProgress = FALSE,
               !.stageTimer = -1]
    /\ UNCHANGED exceptServices

NextServices ==
    \/ ServicesScroll
    \/ ServicesFrame
    \/ ServicesStageTimer

SpecServices == InitServices /\ [][NextServices]_vars

\* C31: the services section has at most one services-scroll-stage-N class
\* in every state, whatever the order of scroll events, frames and the
\* 50 ms timer
C31_OneStageClass == Cardinality(services.stageClasses) <= 1


---------------------------------------------------------------------------
(* CookieConsentManager: page loads, the banner's timers, the buttons, the
   modal's checkboxes and Escape.  Every other component is left out. *)

exceptCookies ==
    <<galaxyVars, filterVars, sliderVars, heroVars, services, contactForm,
      loadingManager, counterAnimation, themeManager>>

\* the object before a step: no initializer has run in it yet
Before == [cookieConsent EXCEPT !.ran = {}, !.applied = NoRecord]

\* the first load of the page: nothing is stored
InitCookies ==
    /\ NoGalaxy /\ NoFilter /\ NoSlider /\ NoHero
    /\ NoServices /\ NoForm /\ NoLoading /\ NoCounters /\ NoTheme
    /\ \E works \in BOOLEAN :
           cookieConsent = NewCookieConsent(NoRecord, works)

\* the page is loaded again: a new object, the same localStorage
CookieLoad ==
    /\ \E works \in BOOLEAN :
           cookieConsent' = NewCookieConsent(cookieConsent.stored, works)
    /\ UNCHANGED exceptCookies

\* the 2 s timer of init() runs showConsent()
CookieShowTimer ==
    /\ cookieConsent.showTimer
    /\ cookieConsent' = [showConsent(Before) EXCEPT
                            !.showTimer = FALSE, !.lastStep = "show"]
    /\ UNCHANGED exceptCookies

\* the 300 ms timer of hideConsent() takes the class show off the banner
CookieHideTimer ==
    /\ cookieConsent.hideTimer
    /\ cookieConsent' = [Before EXCEPT
                            !.hideTimer = FALSE, !.show = FALSE,
                            !.lastStep = "hidden"]
    /\ UNCHANGED exceptCookies

\* a click on the accept or on the reject button of the banner
CookieDecide ==
    /\ cookieConsent.show
    /\ \E accept \in BOOLEAN :
           cookieConsent' =
               [decideAll(Before, Preferences(accept, accept)) EXCEPT
                   !.lastStep = IF accept THEN "accept" ELSE "reject"]
    /\ UNCHANGED exceptCookies

\* a click on the close button of the banner, or Escape with the banner
\* shown and the modal not
CookieClose ==
    /\ cookieConsent.show /\ ~cookieConsent.modalShow
    /\ cookieConsent' = [hideConsent(Before) EXCEPT !.lastStep = "close"]
    /\ UNCHANGED exceptCookies

\* a click on the customize button opens the modal; the modal's close
\* button, a click beside it or Escape closes it
CookieModal ==
    /\ cookieConsent.show \/ cookieConsent.modalShow
    /\ cookieConsent' = [Before EXCEPT
                            !.modalShow = ~cookieConsent.modalShow,
                            !.lastStep = "modal"]
    /\ UNCHANGED exceptCookies

\* the user changes a checkbox of the modal
CookieCheckbox ==
    /\ cookieConsent.modalShow
    /\ \E box \in {"analytics", "marketing"} :
           LET c == IF box = "analytics"
                    THEN [Before EXCEPT !.analyticsChecked = ~@]
                    ELSE [Before EXCEPT !.marketingChecked = ~@]
           IN  cookieConsent' =
                   [updateCookiePreferences(c) EXCEPT !.lastStep = "change"]
    /\ UNCHANGED exceptCookies

NextCookies ==
    \/ CookieLoad
    \/ CookieShowTimer
    \/ CookieHideTimer
    \/ CookieDecide
    \/ CookieClose
    \/ CookieModal
    \/ CookieCheckbox

SpecCookies == InitCookies /\ [][NextCookies]_vars

\* the steps in which the user decides: accept, reject, or a checkbox of the
\* modal
CookieDecisions == {"accept", "reject", "change"}

\* C32: every preferences record in storage has essential = TRUE; a step
\* runs the Google Analytics (the marketing) initializer only for
\* preferences that grant analytics (marketing); and a step runs no
\* initializer while no consent is stored and the step is not a decision of
\* the user (nothing chosen yet, or the banner merely closed).
C32_ConsentGatesCookies ==
    /\ cookieConsent.stored.present => cookieConsent.stored.essential
    /\ "analytics" \in cookieConsent.ran => cookieConsent.applied.analytics
    /\ "marketing" \in cookieConsent.ran => cookieConsent.applied.marketing
    /\ (~cookieConsent.stored.present
          /\ cookieConsent.lastStep \notin CookieDecisions)
       => cookieConsent.ran = {}

\* the user has granted marketing alone in the modal: the record is stored
\* and the marketing and essential initializers ran, Google Analytics not
C32_Witness ==
    /\ cookieConsent.lastStep = "change"
    /\ cookieConsent.stored = Preferences(FALSE, TRUE)
    /\ cookieConsent.ran = {"essential", "marketing"}

\* C33 as the specification states it: a page load schedules the banner
\* exactly when no record is stored, and after an accept or a reject a
\* record is stored.
C33_AsSpecified ==
    /\ cookieConsent.lastStep = "init"
       => (cookieConsent.showTimer <=> ~cookieConsent.stored.present)
    /\ cookieConsent.lastStep \in {"accept", "reject"}
       => cookieConsent.stored.present

\* C33: a page load schedules the banner exactly when it can read no
\* consent record from localStorage (none is stored, or localStorage
\* throws); an accept or a reject stores its record when localStorage takes
\* the write; a stored record is never removed, so every later load that
\* can read it does not schedule the banner; closing the banner stores
\* nothing and a load changes no record, so with nothing stored the next
\* load schedules the banner again.
C33_BannerFollowsStoredConsent ==
    [][LET c == cookieConsent
           d == cookieConsent'
       IN  /\ d.lastStep = "init"
              => (d.showTimer <=> ~(d.storageWorks /\ d.stored.present))
           /\ (d.lastStep \in {"accept", "reject"} /\ c.storageWorks)
              => d.stored = Preferences(d.lastStep = "accept",
                                        d.lastStep = "accept")
           /\ c.stored.present => d.stored.present
           /\ d.lastStep \in {"close", "init"} => d.stored = c.stored]_vars

\* a load after an accept finds the record and schedules no banner
C33_Witness ==
    /\ cookieConsent.lastStep = "init"
    /\ cookieConsent.storageWorks
    /\ cookieConsent.stored = Preferences(TRUE, TRUE)
    /\ ~cookieConsent.showTimer


---------------------------------------------------------------------------
(* ContactForm: typing, leaving a field, submitting, the settling of the
   two sends and the timer of the message.  Every other component is left
   out. *)

exceptForm ==
    <<galaxyVars, filterVars, sliderVars, heroVars, services, cookieConsent,
      loadingManager, counterAnimation, themeManager>>

MaxSubmits == 2

\* what the user types into a field
FieldValues(field) ==
    CASE field = "name" -> {<< >>, <<"a">>, <<" ", "a">>, <<"a", "b">>}
      [] field = "email" -> {<< >>, <<"a", "@", "b">>,
                             <<"a", "@", "b", ".", "c">>,
                             <<"a", " ", "@", "b", ".", "c">>}
      [] OTHER -> {<< >>, <<" ">>, <<"m">>}

InitForm ==
    /\ NoGalaxy /\ NoFilter /\ NoSlider /\ NoHero
    /\ NoServices /\ NoCookies /\ NoLoading /\ NoCounters /\ NoTheme
    /\ \E required \in SUBSET FormFields, messageElement \in BOOLEAN :
           contactForm = NewContactForm(required, messageElement)

\* the input event of a field: the user has typed, clearFieldError()
FormInput ==
    /\ \E field \in FormFields :
       \E v \in FieldValues(field) \ {contactForm.value[field]} :
           contactForm' = [contactForm EXCEPT !.value[field] = v,
                                              !.error[field] = FALSE,
                                              !.sent = {},
                                              !.lastStep = "input"]
    /\ UNCHANGED exceptForm

\* the blur event of a field: validateField()
FormBlur ==
    /\ \E field \in FormFields :
           contactForm' =
               [contactForm EXCEPT
                   !.error[field] = ~validateField(contactForm, field),
                   !.sent = {},
                   !.lastStep = "blur"]
    /\ UNCHANGED exceptForm

\* the submit event; window.open() opens the window, is blocked, or throws
FormSubmit ==
    /\ contactForm.submits < MaxSubmits
    /\ \E whatsapp \in {"opened", "blocked", "throws"} :
           contactForm' = handleSubmit(contactForm, whatsapp)
    /\ UNCHANGED exceptForm

\* the 1.5 s timer of sendToEmail() resolves or rejects its promise, the
\* last of the two to settle, and handleSubmit() goes on
FormSendsSettled ==
    /\ contactForm.pending > 0
    /\ contactForm' = handleSubmitSettled(contactForm)
    /\ UNCHANGED exceptForm

\* the 5 s timer of showMessage() hides the message
FormMessageTimer ==
    /\ contactForm.message # "none"
    /\ contactForm' = [contactForm EXCEPT !.message = "none",
                                          !.sent = {},
                                          !.lastStep = "hidden"]
    /\ UNCHANGED exceptForm

NextForm ==
    \/ FormInput
    \/ FormBlur
    \/ FormSubmit
    \/ FormSendsSettled
    \/ FormMessageTimer

\* the browser runs a timer that is due
SpecForm == InitForm /\ [][NextForm]_vars /\ WF_vars(FormSendsSettled)

\* the claim's cases of a field that fails validation: empty, a malformed
\* email, a name shorter than 2 characters
FailsValidation(field) ==
    LET value == trim(contactForm.value[field])
    IN  \/ value = << >>
        \/ field = "email" /\ ~emailRegexTest(value)
        \/ field = "name" /\ Len(value) < 2

C35_LoadingEnds ==
    /\ [](contactForm.pending = 0 => ~contactForm.loading)
    /\ (contactForm.loading ~> ~contactForm.loading)

\* a submission has entered the loading state and left it
C35_Witness ==
    /\ contactForm.lastStep = "settled"
    /\ contactForm.pending = 0
    /\ ~contactForm.loading


---------------------------------------------------------------------------
(* LoadingManager: the clock, the timers and the load event of the window.
   Every other component is left out. *)

exceptLoading ==
    <<galaxyVars, filterVars, sliderVars, heroVars, services, cookieConsent,
      contactForm, counterAnimation, themeManager>>

MaxLoadingSteps == 90
MaxMessages == 2

InitLoading ==
    /\ NoGalaxy /\ NoFilter /\ NoSlider /\ NoHero
    /\ NoServices /\ NoCookies /\ NoForm /\ NoCounters /\ NoTheme
    /\ \E loadingScreen \in BOOLEAN, messages \in 0..MaxMessages :
           loadingManager = NewLoadingManager(loadingScreen, messages)

\* the load event of the window, once: the handler starts its 1 s timer
LoadingLoad ==
    /\ loadingManager.loadAt = -1
    /\ loadingManager' =
           [loadingManager EXCEPT
               !.loadAt = loadingManager.clock,
               !.timers = Append(@, [kind |-> "hide", left |-> LoadSteps])]
    /\ UNCHANGED exceptLoading

\* the first of the due timers runs
LoadingTimer ==
    LET k == FirstDue(loadingManager.timers, 1)
    IN  /\ k # 0
        /\ loadingManager' =
               LoadingTimerCallback(
                   [loadingManager EXCEPT !.timers = Without(@, k)],
                   loadingManager.timers[k])
        /\ UNCHANGED exceptLoading

\* 100 ms pass; due timers run before time goes on
LoadingWait ==
    /\ loadingManager.clock < MaxLoadingSteps
    /\ FirstDue(loadingManager.timers, 1) = 0
    /\ loadingManager' = [loadingManager EXCEPT !.clock = @ + 1,
                                                !.timers = Waited(@)]
    /\ UNCHANGED exceptLoading

NextLoading ==
    \/ LoadingLoad
    \/ LoadingTimer
    \/ LoadingWait

SpecLoading == InitLoading /\ [][NextLoading]_vars

\* the removals of the loading screen that have run or are scheduled
Removals ==
    loadingManager.removals
    + Cardinality({k \in 1..Len(loadingManager.timers) :
                      loadingManager.timers[k].kind = "remove"})

\* C36: a loading screen that exists is hidden once the clock has passed
\* 8 s, or 1 s after the load event; hideLoadingScreen() takes effect at
\* most once and at most one removal is ever scheduled, however the two
\* triggers are ordered.
C36_HiddenOnce ==
    LET m == loadingManager
    IN  /\ (m.loadingScreen /\ m.clock > ScreenSteps) => m.hidden
        /\ (m.loadingScreen /\ m.loadAt # -1
              /\ m.clock > m.loadAt + LoadSteps) => m.hidden
        /\ m.hides <= 1
        /\ Removals <= 1
        /\ m.hidden => (m.isLoaded /\ m.hides = 1 /\ Removals = 1)

\* the load event came after 2 s: the screen was hidden at 3 s and removed,
\* and the 8 s timer has run as well
C36_Witness ==
    /\ loadingManager.loadingScreen
    /\ loadingManager.loadAt = 20
    /\ loadingManager.clock > ScreenSteps
    /\ loadingManager.timers = << >>
    /\ loadingManager.hidden
    /\ loadingManager.removals = 1


---------------------------------------------------------------------------
(* CounterAnimation: intersection events and the ticks of the counters'
   intervals.  Every other component is left out. *)

exceptCounters ==
    <<galaxyVars, filterVars, sliderVars, heroVars, services, cookieConsent,
      contactForm, loadingManager, themeManager>>

NumCounters == 2
MaxIntersections == 3

\* the data-target of the counters of the page
CounterTargets == {0, 1, 3, 250}

InitCounters ==
    /\ NoGalaxy /\ NoFilter /\ NoSlider /\ NoHero
    /\ NoServices /\ NoCookies /\ NoForm /\ NoLoading /\ NoTheme
    /\ \E targets \in [1..NumCounters -> CounterTargets] :
           counterAnimation = NewCounterAnimation(targets)

\* the observer reports an entry
CounterIntersection ==
    /\ counterAnimation.intersections < MaxIntersections
    /\ \E isIntersecting \in BOOLEAN :
           counterAnimation' = observed(counterAnimation, isIntersecting)
    /\ UNCHANGED exceptCounters

\* 16 ms pass: the interval of a counter runs its callback; the intervals
\* were set in the order of the counters and run in that order
CounterInterval ==
    /\ \E k \in DOMAIN counterAnimation.counters :
           LET counters == counterAnimation.counters
           IN  /\ counters[k].running
               /\ \A n \in DOMAIN counters :
                      counters[n].running =>
                          IF n < k THEN counters[n].current > counters[k].current
                          ELSE counters[n].current >= counters[k].current
               /\ \E short \in BOOLEAN :
                      counterAnimation' =
                          [counterAnimation EXCEPT
                              !.counters[k] = intervalCallback(@, short)]
    /\ UNCHANGED exceptCounters

NextCounters ==
    \/ CounterIntersection
    \/ CounterInterval

SpecCounters == InitCounters /\ [][NextCounters]_vars

\* C37: animateCounters() runs at most once, however many entries the
\* observer reports; a counter's interval runs its callback at most 126
\* times, and once it is cleared the counter's text is its target.
C37_CountersAnimateOnceAndStop ==
    /\ counterAnimation.animations <= 1
    /\ counterAnimation.hasAnimated <=> counterAnimation.animations = 1
    /\ \A k \in DOMAIN counterAnimation.counters :
           LET counter == counterAnimation.counters[k]
           IN  /\ counter.current <= Ticks + 1
               /\ counter.running => counter.current <= Ticks
               /\ (counterAnimation.hasAnimated /\ ~counter.running)
                  => counter.text = counter.target

\* three entries were reported, the counters were animated once, and the
\* intervals are cleared with the texts 250 and 0
C37_Witness ==
    /\ counterAnimation.intersections = 3
    /\ counterAnimation.animations = 1
    /\ \A k \in DOMAIN counterAnimation.counters :
           ~counterAnimation.counters[k].running
    /\ counterAnimation.counters[1].text = 250
    /\ counterAnimation.counters[1].current = Ticks + 1
    /\ counterAnimation.counters[2].target = 0


---------------------------------------------------------------------------
(* ThemeManager: page loads, clicks on the toggle and changes of the
   system's colour scheme.  Every other component is left out; themeManager
   is the pair of the object and the record of its last two steps. *)

exceptTheme ==
    <<galaxyVars, filterVars, sliderVars, heroVars, services, cookieConsent,
      contactForm, loadingManager, counterAnimation>>

\* the record of the steps after one more: the kind of the last two steps
\* and the currentTheme before each
AfterTheme(step) ==
    [lastStep |-> step,
     prevStep |-> themeManager.page.lastStep,
     beforeLast |-> themeManager.manager.currentTheme,
     beforePrev |-> themeManager.page.beforeLast]

\* the first load of the page: nothing is stored
InitTheme ==
    /\ NoGalaxy /\ NoFilter /\ NoSlider /\ NoHero
    /\ NoServices /\ NoCookies /\ NoForm /\ NoLoading /\ NoCounters
    /\ \E themeToggle, systemDark \in BOOLEAN,
          metaThemeColor \in {"absent", "#ffffff"} :
           themeManager =
               [manager |-> NewThemeManager("none", themeToggle,
                                            metaThemeColor, systemDark),
                page |-> [lastStep |-> "init", prevStep |-> "init",
                          beforeLast |-> "light", beforePrev |-> "light"]]

\* the page is loaded again: a new object, the same localStorage
ThemeLoad ==
    /\ themeManager' =
           [manager |-> NewThemeManager(
                            themeManager.manager.stored,
                            themeManager.manager.themeToggle,
                            IF themeManager.manager.metaThemeColor = "absent"
                            THEN "absent" ELSE "#ffffff",
                            themeManager.manager.systemDark),
            page |-> AfterTheme("init")]
    /\ UNCHANGED exceptTheme

\* a click on #theme-toggle
ThemeToggleClick ==
    /\ themeManager.manager.themeToggle
    /\ themeManager' = [manager |-> toggleTheme(themeManager.manager),
                        page |-> AfterTheme("toggle")]
    /\ UNCHANGED exceptTheme

\* the system's colour scheme changes
ThemeSystemChange ==
    /\ themeManager' =
           [manager |-> systemThemeChange(themeManager.manager,
                                          ~themeManager.manager.systemDark),
            page |-> AfterTheme("system")]
    /\ UNCHANGED exceptTheme

NextTheme ==
    \/ ThemeLoad
    \/ ThemeToggleClick
    \/ ThemeSystemChange

SpecTheme == InitTheme /\ [][NextTheme]_vars

\* C38: data-theme equals currentTheme; after a toggle the stored theme
\* equals currentTheme; the second of two toggles in a row restores the
\* theme from before the first; a change of the system's colour scheme
\* alters the theme only while no theme is stored.
C38_ThemeAppliedAndStored ==
    LET t == themeManager.manager
        p == themeManager.page
    IN  /\ t.dataTheme = t.currentTheme
        /\ p.lastStep = "toggle" => t.stored = t.currentTheme
        /\ (p.lastStep = "toggle" /\ p.prevStep = "toggle")
           => t.currentTheme = p.beforePrev
        /\ (p.lastStep = "system" /\ t.currentTheme # p.beforeLast)
           => t.stored = "none"

\* the user has toggled twice with nothing stored before, and a change of
\* the system's colour scheme has then left the theme alone
C38_Witness ==
    /\ themeManager.page.lastStep = "system"
    /\ themeManager.page.prevStep = "toggle"
    /\ themeManager.page.beforePrev = "dark"
    /\ themeManager.manager.systemDark
    /\ themeManager.manager.stored = "light"
    /\ themeManager.manager.currentTheme = "light"

====
